---- MODULE Spec2Model ----
(***************************************************************************)
(* A model of azst, a command-line client that presents Azure blob        *)
(* storage as a virtual file system addressed by az:// URIs.               *)
(*                                                                         *)
(* Strings are TLA+ strings; a character is a string of length 1.          *)
(* Option<T> is a tuple: None is <<>> and Some(x) is <<x>>.                *)
(***************************************************************************)
EXTENDS Integers, Sequences, FiniteSets, TLC

VARIABLES
    pc,         \* position of the command being run
    uri,        \* the address handed to parse_azure_uri
    triple,     \* the (account, container, path) triple an address is formatted from
    parsed,     \* the Result returned by parse_azure_uri
    store,      \* the blobs of the addressed container, in the provider's (name) order
    provider_ok,\* whether the listing provider answers or fails
    cmd,        \* the arguments of the ls or du command being run
    ls_result,  \* what list_azure_objects did and returned
    du_result,  \* what calculate_azure_usage did and returned
    arg,        \* the arguments of the function being applied on its own
    ret,        \* what that function returned
    pages,      \* the page results the provider's stream yields, in order
    consumer,   \* who consumes the listing, and when its callback fails
    requested,  \* how many pages have been requested of the stream
    outstanding,\* how many page requests are in flight
    batch,      \* the items converted from the page being handled
    received,   \* the batches the callback has been handed, in call order
    all_items,  \* list_blobs: the items collected so far
    printed,    \* the entries the command has written to its output
    page_result,\* what the listing returned
    world,      \* what the outside answers to the command being run
    trace,      \* the operations the command has carried out, in order
    local       \* the state the running command or client keeps

uriVars == <<uri, triple, parsed>>
storeVars == <<store, provider_ok, cmd>>
fnVars == <<arg, ret>>
pageVars ==
    <<pages, consumer, requested, outstanding, batch, received, all_items, printed, page_result>>
vars ==
    <<pc, uri, triple, parsed, store, provider_ok, cmd, ls_result, du_result, arg, ret,
      pages, consumer, requested, outstanding, batch, received, all_items, printed, page_result,
      world, trace, local>>
cmdVars == <<world, trace, local>>

-----------------------------------------------------------------------------
(* Bounds of the model *)

\* longest first segment enumerated over the whole segment alphabet
MaxSeg == 3
\* longest remainder (after the first segment) enumerated
MaxRest == 5
\* longest path of a formatted triple
MaxPath == 2
\* how many keys of KeyUniverse a container may hold
MaxKeys == 8
\* longest glob pattern enumerated
MaxPattern == 4
\* longest output of azcopy enumerated line by line
MaxLines == 2
\* how many get_credential calls a client receives
MaxCalls == 5
\* longest candidate name enumerated for the matcher
MaxCandidate == 4
\* longest item list handed to calculate_directory_sizes on its own
MaxItems == 2
\* most pages a listing's stream yields
MaxPages == 3

\* is_storage_account_name: (3..=24).contains(&len)
MinAccountLen == 3
MaxAccountLen == 24

-----------------------------------------------------------------------------
(* Option<T> *)

None == <<>>
Some(x) == <<x>>
IsSome(o) == Len(o) = 1
IsNone(o) == Len(o) = 0
Unwrap(o) == o[1]

-----------------------------------------------------------------------------
(* str and Vec<&str> operations of the Rust standard library *)

Char(s, i) == SubSeq(s, i, i)

\* s[n..]
Skip(s, n) == SubSeq(s, n + 1, Len(s))

\* s[..n]
Take(s, n) == SubSeq(s, 1, n)

\* str::starts_with
StartsWith(s, p) == Len(s) >= Len(p) /\ Take(s, Len(p)) = p

\* str::ends_with
EndsWith(s, p) == Len(s) >= Len(p) /\ Skip(s, Len(s) - Len(p)) = p

\* str::contains
Contains(s, p) == \E i \in 0..(Len(s) - Len(p)) : SubSeq(s, i + 1, i + Len(p)) = p

\* str::find(char): the 1-based index of the first c in s, 0 when there is none
Find(s, c) ==
    IF \E i \in 1..Len(s) : Char(s, i) = c
    THEN CHOOSE i \in 1..Len(s) : Char(s, i) = c /\ \A j \in 1..(i - 1) : Char(s, j) # c
    ELSE 0

\* str::splitn(n, c) collected: at most n parts, the last one holding the rest
RECURSIVE SplitN(_, _, _)
SplitN(s, n, c) ==
    LET i == Find(s, c)
    IN  IF n <= 1 \/ i = 0
        THEN <<s>>
        ELSE <<Take(s, i - 1)>> \o SplitN(Skip(s, i), n - 1, c)

\* str::split(c) collected: every part, empty ones included
RECURSIVE Split(_, _)
Split(s, c) ==
    LET i == Find(s, c)
    IN  IF i = 0
        THEN <<s>>
        ELSE <<Take(s, i - 1)>> \o Split(Skip(s, i), c)

\* [&str]::join(sep)
RECURSIVE Join(_, _)
Join(parts, sep) ==
    IF Len(parts) = 0 THEN ""
    ELSE IF Len(parts) = 1 THEN parts[1]
    ELSE parts[1] \o sep \o Join(Tail(parts), sep)

\* str::strip_prefix(p).unwrap_or(s)
StripPrefixOr(s, p) == IF StartsWith(s, p) THEN Skip(s, Len(p)) ELSE s

\* char::is_ascii_lowercase
AsciiLowercase ==
    {"a", "b", "c", "d", "e", "f", "g", "h", "i", "j", "k", "l", "m",
     "n", "o", "p", "q", "r", "s", "t", "u", "v", "w", "x", "y", "z"}

\* char::is_ascii_digit
AsciiDigit == {"0", "1", "2", "3", "4", "5", "6", "7", "8", "9"}

-----------------------------------------------------------------------------
(* utils.rs *)

\* A bug is_storage_account_name could have: the upper length limit is exclusive.
is_storage_account_name_exclusive(s) ==
    /\ Len(s) >= MinAccountLen
    /\ Len(s) < MaxAccountLen
    /\ \A i \in 1..Len(s) : Char(s, i) \in AsciiLowercase \cup AsciiDigit

is_storage_account_name(s) ==
    /\ Len(s) >= MinAccountLen
    /\ Len(s) <= MaxAccountLen
    /\ \A i \in 1..Len(s) : Char(s, i) \in AsciiLowercase \cup AsciiDigit

Err(msg) == [ok |-> FALSE, err |-> msg]
Ok(account, container, path) ==
    [ok |-> TRUE, account |-> account, container |-> container, path |-> path]

\* A bug parse_parts could have: a path that is only "/" is dropped like an empty one.
parse_parts_trimmed(parts) ==
    IF Len(parts) = 1 /\ is_storage_account_name(parts[1])
    THEN Ok(Some(parts[1]), "", None)
    ELSE IF Len(parts) >= 2 /\ is_storage_account_name(parts[1])
    THEN Ok(Some(parts[1]),
            parts[2],
            IF Len(parts) > 2 /\ parts[3] \notin {"", "/"} THEN Some(parts[3]) ELSE None)
    ELSE Ok(None,
            parts[1],
            IF Len(parts) > 1
            THEN LET joined == Join(Tail(parts), "/")
                 IN  IF joined \notin {"", "/"} THEN Some(joined) ELSE None
            ELSE None)

\* A bug parse_parts could have: the legacy path is the second part alone, the
\* third part is not joined back.
parse_parts_unjoined(parts) ==
    IF Len(parts) = 1 /\ is_storage_account_name(parts[1])
    THEN Ok(Some(parts[1]), "", None)
    ELSE IF Len(parts) >= 2 /\ is_storage_account_name(parts[1])
    THEN Ok(Some(parts[1]),
            parts[2],
            IF Len(parts) > 2 /\ parts[3] # "" THEN Some(parts[3]) ELSE None)
    ELSE Ok(None,
            parts[1],
            IF Len(parts) > 1 /\ parts[2] # "" THEN Some(parts[2]) ELSE None)

\* A bug parse_parts could have: an empty third part is kept as the path.
parse_parts_empty_path(parts) ==
    IF Len(parts) = 1 /\ is_storage_account_name(parts[1])
    THEN Ok(Some(parts[1]), "", None)
    ELSE IF Len(parts) >= 2 /\ is_storage_account_name(parts[1])
    THEN Ok(Some(parts[1]), parts[2], IF Len(parts) > 2 THEN Some(parts[3]) ELSE None)
    ELSE Ok(None,
            parts[1],
            IF Len(parts) > 1
            THEN LET joined == Join(Tail(parts), "/")
                 IN  IF joined # "" THEN Some(joined) ELSE None
            ELSE None)

\* A bug parse_parts could have: the legacy path is kept when it is empty.
parse_parts_keep_empty(parts) ==
    IF Len(parts) = 1 /\ is_storage_account_name(parts[1])
    THEN Ok(Some(parts[1]), "", None)
    ELSE IF Len(parts) >= 2 /\ is_storage_account_name(parts[1])
    THEN Ok(Some(parts[1]),
            parts[2],
            IF Len(parts) > 2 /\ parts[3] # "" THEN Some(parts[3]) ELSE None)
    ELSE Ok(None,
            parts[1],
            IF Len(parts) > 1 THEN Some(Join(Tail(parts), "/")) ELSE None)

\* The branches of parse_azure_uri after the scheme and the first segment are checked.
parse_parts(parts) ==
    IF Len(parts) = 1 /\ is_storage_account_name(parts[1])
    THEN Ok(Some(parts[1]), "", None)
    ELSE IF Len(parts) >= 2 /\ is_storage_account_name(parts[1])
    THEN Ok(Some(parts[1]),
            parts[2],
            IF Len(parts) > 2 /\ parts[3] # "" THEN Some(parts[3]) ELSE None)
    ELSE Ok(None,
            parts[1],
            IF Len(parts) > 1
            THEN LET joined == Join(Tail(parts), "/")
                 IN  IF joined # "" THEN Some(joined) ELSE None
            ELSE None)

\* A bug parse_azure_uri could have: the empty first segment is not rejected.
parse_azure_uri_unchecked(u) ==
    IF ~StartsWith(u, "az://")
    THEN Err("Invalid Azure URI. Must start with 'az://'")
    ELSE parse_parts(SplitN(Skip(u, 5), 3, "/"))

parse_azure_uri(u) ==
    IF ~StartsWith(u, "az://")
    THEN Err("Invalid Azure URI. Must start with 'az://'")
    ELSE LET path_part == Skip(u, 5)
             parts == SplitN(path_part, 3, "/")
         IN  IF Len(parts) = 0 \/ parts[1] = ""
             THEN Err("Invalid Azure URI. Storage account or container name is required")
             ELSE parse_parts(parts)

\* The address forms parse_azure_uri documents, written from a triple; `slash`
\* chooses between the two documented forms of a triple without a path.
format_azure_uri(t, slash) ==
    LET head == IF IsSome(t.account)
                THEN IF t.container = "" /\ IsNone(t.path)
                     THEN Unwrap(t.account)
                     ELSE Unwrap(t.account) \o "/" \o t.container
                ELSE t.container
        rest == IF IsSome(t.path) THEN "/" \o Unwrap(t.path)
                ELSE IF slash THEN "/" ELSE ""
    IN  "az://" \o head \o rest

-----------------------------------------------------------------------------
(* Inputs *)

\* every string over alphabet of length at most n
RECURSIVE Strs(_, _)
Strs(alphabet, n) ==
    IF n = 0 THEN {""}
    ELSE LET shorter == Strs(alphabet, n - 1)
         IN  shorter \cup {s \o c : s \in shorter, c \in alphabet}

\* c repeated n times
RECURSIVE Rep(_, _)
Rep(c, n) == IF n = 0 THEN "" ELSE c \o Rep(c, n - 1)

Schemes == {"az://", "gs://", "az:/", "AZ://", ""}

SegAlphabet == {"a", "1", "A", "_"}

\* first segments: every short one, and long ones around the account length limit
FirstSegs ==
    Strs(SegAlphabet, MaxSeg)
        \cup {Rep("a", n) : n \in MinAccountLen..(MaxAccountLen + 1)}
        \cup {Rep("a", n) \o "9" : n \in (MaxAccountLen - 2)..MaxAccountLen}
        \cup {Rep("a", MaxAccountLen - 1) \o c : c \in {"A", ".", " "}}

Rests == Strs({"/", "x"}, MaxRest)

\* the addresses of the unit tests of utils.rs
TestUris ==
    {"az://myaccount/mycontainer/path/to/file.txt", "az://myaccount/mycontainer/",
     "az://myaccount/mycontainer", "az://samaindevoptimus/dev/uploads/file.txt",
     "az://samaindevoptimus", "az://samaindevoptimus/",
     "az://MyContainer/path/to/file.txt", "az://MyContainer/",
     "invalid://uri", "az://", "az://account/container//",
     "az://myaccount/mycontainer/a/b/c/d/e/file.txt",
     "az://myaccount/mycontainer/file-name_2024.txt",
     "az://ab/container/x"}

UriInputs == {s \o f \o r : s \in Schemes, f \in FirstSegs, r \in Rests} \cup TestUris

NoTriple == [account |-> None, container |-> "", path |-> None]
NotParsed == [ok |-> FALSE]

AccountCands == {"abc", "a1b", "ab", "Abc", Rep("a", MaxAccountLen), Rep("a", MaxAccountLen + 1)}
ContainerCands == Strs({"c", "C", "_", "-", "/"}, MaxSeg)
PathCands == Strs({"x", "/"}, MaxPath)

Triples ==
    [account : {None} \cup {Some(a) : a \in AccountCands},
     container : ContainerCands,
     path : {None} \cup {Some(p) : p \in PathCands}]

-----------------------------------------------------------------------------
(* Address parsing: parse an address, or format a triple and parse the result *)

NoCmd == [path |-> ""]
NoResult == [status |-> "none"]

IdleUri == uri = "" /\ triple = NoTriple /\ parsed = NotParsed
IdleStore == store = <<>> /\ provider_ok = TRUE /\ cmd = NoCmd
IdleLs == ls_result = NoResult
IdleDu == du_result = NoResult
IdleFn == arg = NoResult /\ ret = NoResult
IdleCmd == world = NoResult /\ trace = <<>> /\ local = NoResult
IdlePage ==
    /\ pages = <<>> /\ consumer = NoResult /\ requested = 0 /\ outstanding = 0
    /\ batch = <<>> /\ received = <<>> /\ all_items = <<>> /\ printed = <<>>
    /\ page_result = NoResult

InitUri ==
    /\ \/ /\ pc = "parse"
          /\ uri \in UriInputs
          /\ triple = NoTriple
          /\ parsed = NotParsed
       \/ /\ pc = "format"
          /\ uri = ""
          /\ triple \in Triples
          /\ parsed = NotParsed
    /\ IdleStore /\ IdleLs /\ IdleDu /\ IdleFn /\ IdlePage /\ IdleCmd

FormatUri ==
    /\ pc = "format"
    /\ \E slash \in BOOLEAN : uri' = format_azure_uri(triple, slash)
    /\ pc' = "parse"
    /\ UNCHANGED <<triple, parsed, storeVars, ls_result, du_result, fnVars, pageVars, cmdVars>>

ParseUri ==
    /\ pc = "parse"
    /\ parsed' = parse_azure_uri(uri)
    /\ pc' = "parsed"
    /\ UNCHANGED <<uri, triple, storeVars, ls_result, du_result, fnVars, pageVars, cmdVars>>

NextUri == FormatUri \/ ParseUri

SpecUri == InitUri /\ [][NextUri]_vars

-----------------------------------------------------------------------------
(* utils.rs: wildcard helpers (used by commands/ls.rs) *)

\* the 1-based index of the first '*' or '?' of path, 0 when there is none
FirstWildcard(path) ==
    IF \E i \in 1..Len(path) : Char(path, i) \in {"*", "?"}
    THEN CHOOSE i \in 1..Len(path) :
            /\ Char(path, i) \in {"*", "?"}
            /\ \A j \in 1..(i - 1) : Char(path, j) \notin {"*", "?"}
    ELSE 0

\* str::rfind(char): the 1-based index of the last c in s, 0 when there is none
RFind(s, c) ==
    IF \E i \in 1..Len(s) : Char(s, i) = c
    THEN CHOOSE i \in 1..Len(s) : Char(s, i) = c /\ \A j \in (i + 1)..Len(s) : Char(s, j) # c
    ELSE 0

\* A bug split_wildcard_path could have: the path is cut at the wildcard.
split_wildcard_path_at_wildcard(path) ==
    IF FirstWildcard(path) = 0
    THEN None
    ELSE Some(<<Take(path, FirstWildcard(path) - 1), Skip(path, FirstWildcard(path) - 1)>>)

\* The literal prefix (up to and including the last '/' before the first
\* wildcard) and the glob pattern (the rest); None when path has no wildcard.
split_wildcard_path(path) ==
    LET w == FirstWildcard(path)
    IN  IF w = 0
        THEN None
        ELSE LET cut == RFind(Take(path, w - 1), "/")
             IN  Some(<<Take(path, cut), Skip(path, cut)>>)

contains_recursive_wildcard(pattern) == Contains(pattern, "**")

\* the number of '*' the pattern starts with
RECURSIVE StarRun(_)
StarRun(pattern) ==
    IF pattern # "" /\ Char(pattern, 1) = "*" THEN 1 + StarRun(Skip(pattern, 1)) ELSE 0

\* A bug matches_pattern could have: every '*' matches across segments.
RECURSIVE matches_pattern_crossing(_, _)
matches_pattern_crossing(candidate, pattern) ==
    IF pattern = ""
    THEN candidate = ""
    ELSE IF Char(pattern, 1) = "*"
    THEN \E k \in 0..Len(candidate) :
            matches_pattern_crossing(Skip(candidate, k), Skip(pattern, 1))
    ELSE /\ candidate # ""
         /\ Char(pattern, 1) \in {"?", Char(candidate, 1)}
         /\ matches_pattern_crossing(Skip(candidate, 1), Skip(pattern, 1))

\* A bug matches_pattern could have: '**' matches characters only, so that
\* the '/' after it always needs a '/' of its own in the candidate.
RECURSIVE matches_pattern_characters(_, _)
matches_pattern_characters(candidate, pattern) ==
    IF pattern = ""
    THEN candidate = ""
    ELSE IF StarRun(pattern) > 0
    THEN \E k \in 0..Len(candidate) :
            /\ StarRun(pattern) # 2 => ~Contains(Take(candidate, k), "/")
            /\ matches_pattern_characters(Skip(candidate, k), Skip(pattern, StarRun(pattern)))
    ELSE /\ candidate # ""
         /\ IF Char(pattern, 1) = "?"
            THEN Char(candidate, 1) # "/"
            ELSE Char(candidate, 1) = Char(pattern, 1)
         /\ matches_pattern_characters(Skip(candidate, 1), Skip(pattern, 1))

\* '*' matches within one segment, the token '**' across segments (with the
\* '/' after it, also no segment at all), '?' one character that is not '/',
\* anything else itself.
RECURSIVE matches_pattern(_, _)
matches_pattern(candidate, pattern) ==
    IF pattern = ""
    THEN candidate = ""
    ELSE IF StarRun(pattern) = 2
    THEN \/ \E k \in 0..Len(candidate) :
              matches_pattern(Skip(candidate, k), Skip(pattern, 2))
         \/ /\ StartsWith(Skip(pattern, 2), "/")
            /\ matches_pattern(candidate, Skip(pattern, 3))
    ELSE IF StarRun(pattern) > 0
    THEN \E k \in 0..Len(candidate) :
            /\ ~Contains(Take(candidate, k), "/")
            /\ matches_pattern(Skip(candidate, k), Skip(pattern, StarRun(pattern)))
    ELSE IF Char(pattern, 1) = "?"
    THEN /\ candidate # ""
         /\ Char(candidate, 1) # "/"
         /\ matches_pattern(Skip(candidate, 1), Skip(pattern, 1))
    ELSE /\ candidate # ""
         /\ Char(candidate, 1) = Char(pattern, 1)
         /\ matches_pattern(Skip(candidate, 1), Skip(pattern, 1))

-----------------------------------------------------------------------------
(* azure.rs: BlobItem and the listing provider *)

Blob(name, size) == [kind |-> "Blob", name |-> name, size |-> size]
Prefix(name) == [kind |-> "Prefix", name |-> name]

\* the virtual directory the provider groups name under, None for a direct child
BlobPrefix(name, prefix) ==
    LET rest == Skip(name, Len(prefix))
    IN  IF Find(rest, "/") = 0 THEN None ELSE Some(prefix \o Take(rest, Find(rest, "/")))

\* One-level listing: a blob directly under prefix is reported itself, the blobs
\* below a '/' are reported once as the BlobPrefix that holds them.
RECURSIVE DelimitedListing(_, _, _)
DelimitedListing(blobs, prefix, seen) ==
    IF blobs = <<>>
    THEN <<>>
    ELSE LET b == Head(blobs)
             g == BlobPrefix(b.name, prefix)
         IN  IF IsNone(g)
             THEN <<b>> \o DelimitedListing(Tail(blobs), prefix, seen)
             ELSE IF Unwrap(g) \in seen
             THEN DelimitedListing(Tail(blobs), prefix, seen)
             ELSE <<Prefix(Unwrap(g))>>
                     \o DelimitedListing(Tail(blobs), prefix, seen \cup {Unwrap(g)})

\* AzureClient::list_blobs on a container holding blobs: every page, collected.
list_blobs(blobs, prefix, delimiter) ==
    LET p == IF IsSome(prefix) THEN Unwrap(prefix) ELSE ""
        under == SelectSeq(blobs, LAMBDA b : StartsWith(b.name, p))
    IN  IF IsSome(delimiter) THEN DelimitedListing(under, p, {}) ELSE under

-----------------------------------------------------------------------------
(* commands/ls.rs *)

\* A bug pattern_depth could have: the empty segments are counted too.
pattern_depth_unfiltered(pattern) ==
    IF Contains(pattern, "**") THEN None ELSE Some(Len(Split(pattern, "/")))

\* A bug pattern_depth could have: '**' is counted as one more segment.
pattern_depth_counting(pattern) ==
    Some(Len(SelectSeq(Split(pattern, "/"), LAMBDA seg : seg # "")))

pattern_depth(pattern) ==
    IF Contains(pattern, "**")
    THEN None
    ELSE Some(Len(SelectSeq(Split(pattern, "/"), LAMBDA seg : seg # "")))

PatternSpec(list_prefix, pattern, force_recursive) ==
    [list_prefix |-> list_prefix, pattern |-> pattern, force_recursive |-> force_recursive]

\* list_azure_objects: (list_prefix, pattern, force_recursive) of the parsed prefix
wildcard_spec(prefix) ==
    IF IsSome(prefix)
    THEN LET split == split_wildcard_path(Unwrap(prefix))
         IN  IF IsSome(split)
             THEN LET before_wildcard == Unwrap(split)[1]
                      wildcard_pattern == Unwrap(split)[2]
                      is_recursive ==
                          \/ contains_recursive_wildcard(wildcard_pattern)
                          \/ Contains(wildcard_pattern, "/")
                  IN  PatternSpec(
                          IF before_wildcard = "" THEN None ELSE Some(before_wildcard),
                          Some(IF EndsWith(wildcard_pattern, "/")
                               THEN wildcard_pattern \o "*"
                               ELSE wildcard_pattern),
                          is_recursive)
             ELSE PatternSpec(prefix, None, FALSE)
    ELSE PatternSpec(None, None, FALSE)

\* A bug ls_delimiter could have: only the caller's flag is looked at.
ls_delimiter_caller_only(recursive, force_recursive) ==
    IF recursive THEN None ELSE Some("/")

\* list_azure_objects: the delimiter handed to list_blobs
ls_delimiter(recursive, force_recursive) ==
    IF recursive \/ force_recursive THEN None ELSE Some("/")

\* the name of a listed item relative to the listing prefix
match_part(name, list_prefix) ==
    IF IsSome(list_prefix) THEN StripPrefixOr(name, Unwrap(list_prefix)) ELSE name

\* A bug unique_prefixes could have: the truncated name is not matched
\* against the pattern.
unique_prefixes_unmatched(blobs, list_prefix, pattern_str, depth) ==
    {Join(SubSeq(Split(match_part(blobs[i].name, list_prefix), "/"), 1, depth), "/") \o "/" :
        i \in {j \in 1..Len(blobs) :
                  Len(Split(match_part(blobs[j].name, list_prefix), "/")) >= depth}}

\* list_azure_objects: the unique prefixes at the pattern's depth
unique_prefixes(blobs, list_prefix, pattern_str, depth) ==
    LET at_depth(item) ==
            Join(SubSeq(Split(match_part(item.name, list_prefix), "/"), 1, depth), "/") \o "/"
    IN  {at_depth(blobs[i]) : i \in
            {j \in 1..Len(blobs) :
                /\ Len(Split(match_part(blobs[j].name, list_prefix), "/")) >= depth
                /\ matches_pattern(at_depth(blobs[j]), pattern_str)}}

\* list_azure_objects: the items whose relative name matches the pattern
filter_blobs(blobs, list_prefix, pattern_str) ==
    SelectSeq(blobs, LAMBDA item : matches_pattern(match_part(item.name, list_prefix), pattern_str))

\* every order a HashSet may be iterated in
Orderings(S) ==
    {seq \in [1..Cardinality(S) -> S] : \A i, j \in 1..Cardinality(S) : seq[i] = seq[j] => i = j}

\* list_azure_objects: every list the unique prefixes at depth may be turned
\* into, one per order the HashSet may be iterated in
prefixes_at_depth(blobs, list_prefix, pattern_str, depth) ==
    {[i \in 1..Len(order) |->
        Prefix(IF IsSome(list_prefix) THEN Unwrap(list_prefix) \o order[i] ELSE order[i])] :
     order \in Orderings(unique_prefixes(blobs, list_prefix, pattern_str, depth))}

\* list_azure_objects: every value filtered_blobs may take
filtered_blobs(blobs, ps, recursive) ==
    IF IsSome(ps.pattern)
    THEN LET pattern_str == Unwrap(ps.pattern)
             expected_depth == pattern_depth(pattern_str)
         IN  IF IsSome(expected_depth)
             THEN IF ps.force_recursive /\ ~recursive
                  THEN prefixes_at_depth(
                           blobs, ps.list_prefix, pattern_str, Unwrap(expected_depth))
                  ELSE {filter_blobs(blobs, ps.list_prefix, pattern_str)}
             ELSE {filter_blobs(blobs, ps.list_prefix, pattern_str)}
    ELSE {blobs}

LsErr(msg) == [status |-> "err", err |-> msg, listed |-> FALSE]

\* the client list_azure_objects works with: the account of the URI, else the
\* one the caller's client is configured with
client_account(account, given) == IF IsSome(account) THEN account ELSE given

\* A bug listed_result could have: an empty listing is reported as a failure.
listed_result_empty_fails(items, ps, delimiter) ==
    IF items = <<>>
    THEN [status |-> "err", err |-> "No objects found", listed |-> TRUE,
          spec |-> ps, delimiter |-> delimiter]
    ELSE [status |-> "ok", output |-> "objects", listed |-> TRUE,
          spec |-> ps, delimiter |-> delimiter, items |-> items]

\* list_azure_objects: what it writes and returns for the filtered items
listed_result(items, ps, delimiter) ==
    [status |-> "ok",
     output |-> IF items = <<>> THEN "empty" ELSE "objects",
     listed |-> TRUE,
     spec |-> ps,
     delimiter |-> delimiter,
     items |-> items]

\* list_azure_objects, from the parsed address on
list_azure_objects(c) ==
    LET r == parse_azure_uri(c.path)
        ps == wildcard_spec(r.path)
        delimiter == ls_delimiter(c.recursive, ps.force_recursive)
        actual_account == client_account(r.account, c.account)
        blobs == list_blobs(store, ps.list_prefix, delimiter)
    IN  IF ~r.ok
        THEN {LsErr(r.err)}
        ELSE IF IsSome(r.account) /\ r.container = ""
        THEN {[status |-> "ok", output |-> "containers", listed |-> FALSE]}
        ELSE IF IsNone(actual_account)
        THEN {LsErr("Storage account not configured")}
        ELSE IF ~provider_ok
        THEN {[status |-> "err", err |-> "Failed to fetch blob page", listed |-> TRUE,
               spec |-> ps, delimiter |-> delimiter]}
        ELSE {listed_result(items, ps, delimiter) :
                items \in filtered_blobs(blobs, ps, c.recursive)}

-----------------------------------------------------------------------------
(* Listing: ls on a container *)

\* the keys a container may hold, in name order
KeyUniverse ==
    << Blob("a//k", 3),
       Blob("docs/r.txt", 7),
       Blob("photos/2023/c.jpg", 50),
       Blob("photos/2024/a.jpg", 100),
       Blob("photos/2024/b.jpg", 200),
       Blob("photos/2024/raw/d.jpg", 30),
       Blob("photos/x.jpg", 5),
       Blob("top.txt", 1),
       Blob("zoo/a/b/c/file", 9),
       Blob("zoo/a/k.txt", 2) >>

Keys == SubSeq(KeyUniverse, 1, IF MaxKeys < Len(KeyUniverse) THEN MaxKeys ELSE Len(KeyUniverse))

\* every container content: the keys of a subset, in name order
Stores == {SelectSeq(Keys, LAMBDA b : b.name \in S) : S \in SUBSET {Keys[i].name : i \in 1..Len(Keys)}}

LsPrefixes ==
    {"", "photos/", "photos", "photos/*/", "photos/**/*.jpg", "photos/*", "photos/*.jpg",
     "*", "*/", "photos/2024/*", "photos/*/*.jpg", "**", "**/*.jpg", "photos/202?/",
     "photos/202?/?.jpg", "p*/", "*/*/", "photos/*/raw/", "nothing/*", "a*//"}

LsAddresses ==
    {"az://acc/c/" \o p : p \in LsPrefixes}
        \cup {"az://My_C/" \o p : p \in {"", "photos/*/", "photos/**/*.jpg", "*.txt"}}
        \cup {"az://acc", "az://acc/", "az://acc/c", "az://", "/local/path"}

LsCmds == [path : LsAddresses, recursive : BOOLEAN, account : {None, Some("acc")}]

InitLs ==
    /\ pc = "ls"
    /\ store \in Stores
    /\ provider_ok \in BOOLEAN
    /\ cmd \in LsCmds
    /\ IdleUri /\ IdleLs /\ IdleDu /\ IdleFn /\ IdlePage /\ IdleCmd

ListAzureObjects ==
    /\ pc = "ls"
    /\ ls_result' \in list_azure_objects(cmd)
    /\ pc' = "listed"
    /\ UNCHANGED <<uriVars, storeVars, du_result, fnVars, pageVars, cmdVars>>

NextLs == ListAzureObjects

SpecLs == InitLs /\ [][NextLs]_vars

-----------------------------------------------------------------------------
(* Pattern depth: pattern_depth on a pattern *)

Patterns == Strs({"*", "/", "a"}, MaxPattern)

InitDepth ==
    /\ pc = "depth"
    /\ arg \in [pattern : Patterns]
    /\ ret = NoResult
    /\ IdleUri /\ IdleStore /\ IdleLs /\ IdleDu /\ IdlePage /\ IdleCmd

PatternDepth ==
    /\ pc = "depth"
    /\ ret' = [depth |-> pattern_depth(arg.pattern)]
    /\ pc' = "depth_done"
    /\ UNCHANGED <<uriVars, storeVars, ls_result, du_result, arg, pageVars, cmdVars>>

NextDepth == PatternDepth

SpecDepth == InitDepth /\ [][NextDepth]_vars

-----------------------------------------------------------------------------
(* Pattern splitting: split_wildcard_path on a path *)

SplitPaths == Strs({"a", "/", "*", "?"}, MaxPattern)

InitSplit ==
    /\ pc = "split"
    /\ arg \in [path : SplitPaths]
    /\ ret = NoResult
    /\ IdleUri /\ IdleStore /\ IdleLs /\ IdleDu /\ IdlePage /\ IdleCmd

SplitWildcardPath ==
    /\ pc = "split"
    /\ ret' = [split |-> split_wildcard_path(arg.path)]
    /\ pc' = "split_done"
    /\ UNCHANGED <<uriVars, storeVars, ls_result, du_result, arg, pageVars, cmdVars>>

NextSplit == SplitWildcardPath

SpecSplit == InitSplit /\ [][NextSplit]_vars

-----------------------------------------------------------------------------
(* Matching: matches_pattern on a candidate and a pattern *)

MatchCandidates ==
    Strs({"a", "/"}, MaxCandidate) \cup {"a/b.txt", "a/b/c.txt", "a/c.txt", "ax", "abc", "a/.txt"}

MatchPatterns ==
    Patterns \cup Strs({"?", "a"}, 3) \cup {"a/*.txt", "a/**/*.txt", "a?", "a/?", "?/a", "**/a"}

InitMatch ==
    /\ pc = "match"
    /\ arg \in [candidate : MatchCandidates, pattern : MatchPatterns]
    /\ ret = NoResult
    /\ IdleUri /\ IdleStore /\ IdleLs /\ IdleDu /\ IdlePage /\ IdleCmd

MatchesPattern ==
    /\ pc = "match"
    /\ ret' = [matched |-> matches_pattern(arg.candidate, arg.pattern)]
    /\ pc' = "match_done"
    /\ UNCHANGED <<uriVars, storeVars, ls_result, du_result, arg, pageVars, cmdVars>>

NextMatch == MatchesPattern

SpecMatch == InitMatch /\ [][NextMatch]_vars

-----------------------------------------------------------------------------
(* Reconstruction: a flat listing truncated to the depth of a pattern *)

ReconstructionPrefixes == {None, Some("photos/"), Some("photos/2024/")}

\* patterns with a depth
ReconstructionPatterns == {"*/", "*", "p*/", "*/*", "*//*"}

InitReconstruct ==
    /\ pc = "reconstruct"
    /\ arg \in [store : Stores,
                list_prefix : ReconstructionPrefixes,
                pattern : ReconstructionPatterns]
    /\ ret = NoResult
    /\ IdleUri /\ IdleStore /\ IdleLs /\ IdleDu /\ IdlePage /\ IdleCmd

\* the flat listing under list_prefix, then the prefixes at the pattern's depth
ReconstructListing ==
    /\ pc = "reconstruct"
    /\ LET blobs == list_blobs(arg.store, arg.list_prefix, None)
           depth == Unwrap(pattern_depth(arg.pattern))
       IN  \E items \in prefixes_at_depth(blobs, arg.list_prefix, arg.pattern, depth) :
               ret' = [depth |-> depth, blobs |-> blobs, items |-> items]
    /\ pc' = "reconstructed"
    /\ UNCHANGED <<uriVars, storeVars, ls_result, du_result, arg, pageVars, cmdVars>>

NextReconstruct == ReconstructListing

SpecReconstruct == InitReconstruct /\ [][NextReconstruct]_vars

-----------------------------------------------------------------------------
(* azure.rs: list_blobs_with_callback and list_blobs, page by page *)

\* the BlobItem a provider item is converted to
to_blob_item(item) ==
    IF item.kind = "Blob" THEN Blob(item.name, item.content_length) ELSE Prefix(item.name)

\* the items of a page, converted in page order
page_items(page) == [i \in 1..Len(page.items) |-> to_blob_item(page.items[i])]

\* page_result.context("Failed to fetch blob page")
page_error(cause) ==
    [status |-> "err", context |-> "Failed to fetch blob page", cause |-> cause]

\* A bug next_step could have: a failed page is skipped and the loop goes on.
next_step_retrying(page) ==
    IF ~page.ok THEN "loop"
    ELSE IF page_items(page) = <<>> THEN "loop"
    ELSE "callback"

\* A bug next_step could have: the next page is asked for before the callback
\* has been given the items of this one.
next_step_prefetching(page) ==
    IF ~page.ok THEN "returned" ELSE "loop"

\* where list_blobs_with_callback goes once stream.next() has yielded page
next_step(page) ==
    IF ~page.ok THEN "returned"
    ELSE IF page_items(page) = <<>> THEN "loop"
    ELSE "callback"

\* A bug handed could have: the callback is given the items of one call only.
handed_last_only(before, items) == <<items>>

\* the batches the callback has been handed once it is called with items
handed(before, items) == Append(before, items)

-----------------------------------------------------------------------------
(* Paging: one listing, by a caller's callback or by ls without a pattern *)

PageDirs == <<"d1/", "d2/", "d3/", "d4/", "d5/">>

ProviderBlob(b) == [kind |-> "Blob", name |-> b.name, content_length |-> b.size]
ProviderPrefix(name) == [kind |-> "BlobPrefix", name |-> name]

\* what the stream may yield as its k-th page: a failure, or a page of up to
\* two items of its own
PageChoices(k) ==
    {[ok |-> FALSE, error |-> k],
     [ok |-> TRUE, items |-> <<>>],
     [ok |-> TRUE, items |-> <<ProviderBlob(KeyUniverse[2 * k - 1])>>],
     [ok |-> TRUE, items |-> <<ProviderBlob(KeyUniverse[2 * k - 1]), ProviderBlob(KeyUniverse[2 * k])>>],
     [ok |-> TRUE, items |-> <<ProviderPrefix(PageDirs[k]), ProviderBlob(KeyUniverse[2 * k])>>]}

PageStreams ==
    UNION {{ps \in [1..n -> UNION {PageChoices(k) : k \in 1..n}] :
                \A k \in 1..n : ps[k] \in PageChoices(k)} : n \in 1..MaxPages}

\* api "callback": list_blobs_with_callback under a caller's callback, whose
\* fail_at-th call fails (0: none does); api "ls": list_azure_objects on an
\* address without a pattern, through list_blobs
Consumers ==
    [api : {"callback"}, client_ok : BOOLEAN, fail_at : 0..MaxPages]
        \cup [api : {"ls"}, client_ok : BOOLEAN, fail_at : {0}]

InitPage ==
    /\ pc = "list"
    /\ pages \in PageStreams
    /\ consumer \in Consumers
    /\ requested = 0
    /\ outstanding = 0
    /\ batch = <<>>
    /\ received = <<>>
    /\ all_items = <<>>
    /\ printed = <<>>
    /\ page_result = NoResult
    /\ IdleUri /\ IdleStore /\ IdleLs /\ IdleDu /\ IdleFn /\ IdleCmd

\* get_blob_service_client().await? and the building of the stream
StartListing ==
    /\ pc = "list"
    /\ IF consumer.client_ok
       THEN pc' = "loop" /\ UNCHANGED page_result
       ELSE /\ pc' = "returned"
            /\ page_result' = [status |-> "err", context |-> "credential", cause |-> 0]
    /\ UNCHANGED <<uriVars, storeVars, ls_result, du_result, fnVars, cmdVars, pages, consumer,
                   requested, outstanding, batch, received, all_items, printed>>

\* stream.next() is called and the request for the next page goes out
RequestPage ==
    /\ pc = "loop"
    /\ requested < Len(pages)
    /\ requested' = requested + 1
    /\ outstanding' = outstanding + 1
    /\ pc' = "await"
    /\ UNCHANGED <<uriVars, storeVars, ls_result, du_result, fnVars, cmdVars, pages, consumer,
                   batch, received, all_items, printed, page_result>>

\* stream.next().await yields the page asked for: a failure returns at once,
\* a page is converted
PageFetched ==
    /\ pc = "await"
    /\ outstanding' = outstanding - 1
    /\ pc' = next_step(pages[requested])
    /\ IF pages[requested].ok
       THEN /\ batch' = page_items(pages[requested])
            /\ UNCHANGED <<page_result, all_items>>
       ELSE /\ page_result' = page_error(pages[requested].error)
            /\ all_items' = <<>>
            /\ UNCHANGED batch
    /\ UNCHANGED <<uriVars, storeVars, ls_result, du_result, fnVars, cmdVars, pages, consumer,
                   requested, received, printed>>

\* callback(items)?: the caller's callback, or all_items.extend(items)
InvokeCallback ==
    /\ pc = "callback"
    /\ received' = handed(received, batch)
    /\ batch' = <<>>
    /\ IF consumer.api = "ls"
       THEN /\ all_items' = all_items \o batch
            /\ pc' = "loop"
            /\ UNCHANGED page_result
       ELSE IF Len(received) + 1 = consumer.fail_at
       THEN /\ page_result' = [status |-> "err", context |-> "callback", cause |-> 0]
            /\ pc' = "returned"
            /\ UNCHANGED all_items
       ELSE /\ pc' = "loop"
            /\ UNCHANGED <<page_result, all_items>>
    /\ UNCHANGED <<uriVars, storeVars, ls_result, du_result, fnVars, cmdVars, pages, consumer,
                   requested, outstanding, printed>>

\* stream.next().await yields None: Ok(()), and Ok(all_items) from list_blobs
EndOfStream ==
    /\ pc = "loop"
    /\ requested = Len(pages)
    /\ page_result' = [status |-> "ok"]
    /\ pc' = "returned"
    /\ UNCHANGED <<uriVars, storeVars, ls_result, du_result, fnVars, cmdVars, pages, consumer,
                   requested, outstanding, batch, received, all_items, printed>>

\* list_azure_objects without a pattern, after list_blobs(..).await?: the
\* collected items are written out one by one
DisplayListing ==
    /\ pc = "returned"
    /\ consumer.api = "ls"
    /\ printed' = IF page_result.status = "ok" THEN all_items ELSE printed
    /\ pc' = "displayed"
    /\ UNCHANGED <<uriVars, storeVars, ls_result, du_result, fnVars, cmdVars, pages, consumer,
                   requested, outstanding, batch, received, all_items, page_result>>

NextPage ==
    \/ StartListing
    \/ RequestPage
    \/ PageFetched
    \/ InvokeCallback
    \/ EndOfStream
    \/ DisplayListing

SpecPage == InitPage /\ [][NextPage]_vars

-----------------------------------------------------------------------------
(* commands/du.rs *)

\* the characters of the modelled names, in byte order
ByteOrder == "*-./0123456789:?ABCDEFGHIJKLMNOPQRSTUVWXYZ_abcdefghijklmnopqrstuvwxyz"

\* str::cmp(a, b) = Less
RECURSIVE StrLess(_, _)
StrLess(a, b) ==
    IF b = "" THEN FALSE
    ELSE IF a = "" THEN TRUE
    ELSE IF Char(a, 1) = Char(b, 1) THEN StrLess(Skip(a, 1), Skip(b, 1))
    ELSE Find(ByteOrder, Char(a, 1)) < Find(ByteOrder, Char(b, 1))

\* the strings of S in ascending order
RECURSIVE SortedStrs(_)
SortedStrs(S) ==
    IF S = {} THEN <<>>
    ELSE LET least == CHOOSE x \in S : \A y \in S \ {x} : StrLess(x, y)
         IN  <<least>> \o SortedStrs(S \ {least})

\* calculate_total_size
RECURSIVE calculate_total_size(_)
calculate_total_size(blobs) ==
    IF blobs = <<>> THEN 0
    ELSE (IF Head(blobs).kind = "Blob" THEN Head(blobs).size ELSE 0)
            + calculate_total_size(Tail(blobs))

\* HashMap::entry(k).or_insert(0) += size, for every key k of dirs
AddToEntries(dir_sizes, dirs, size) ==
    [d \in DOMAIN dir_sizes \cup dirs |->
        (IF d \in DOMAIN dir_sizes THEN dir_sizes[d] ELSE 0) + (IF d \in dirs THEN size ELSE 0)]

\* the path of a blob relative to the base prefix
relative_path(name, base_prefix) ==
    IF IsSome(base_prefix) THEN StripPrefixOr(name, Unwrap(base_prefix)) ELSE name

\* A bug DirLevels could have: the loop runs up to segments.len() inclusive.
DirLevelsInclusive(relative) ==
    LET segments == Split(relative, "/")
    IN  {Join(SubSeq(segments, 1, i), "/") \o "/" : i \in 1..Len(segments)}

\* the directory levels above a relative path: segments[..i].join("/") + "/"
\* for i in 1..segments.len()
DirLevels(relative) ==
    LET segments == Split(relative, "/")
    IN  {Join(SubSeq(segments, 1, i), "/") \o "/" : i \in 1..(Len(segments) - 1)}

\* the loop of calculate_directory_sizes over the items left, from the map so far
RECURSIVE dir_sizes_fold(_, _, _)
dir_sizes_fold(blobs, base_prefix, dir_sizes) ==
    IF blobs = <<>>
    THEN dir_sizes
    ELSE LET item == Head(blobs)
         IN  dir_sizes_fold(
                 Tail(blobs),
                 base_prefix,
                 IF item.kind = "Blob"
                 THEN AddToEntries(dir_sizes,
                                   DirLevels(relative_path(item.name, base_prefix)),
                                   item.size)
                 ELSE dir_sizes)

\* the empty HashMap
EmptyMap == [d \in {} |-> 0]

calculate_directory_sizes(blobs, base_prefix) == dir_sizes_fold(blobs, base_prefix, EmptyMap)

DuErr(msg) == [status |-> "err", err |-> msg]
DuLine(size, display_path) == [size |-> size, path |-> display_path]

\* calculate_all_containers_usage, for an account whose one container holds store
calculate_all_containers_usage(c, actual_account) ==
    IF ~provider_ok
    THEN DuErr("Failed to fetch blob page")
    ELSE LET container_size == calculate_total_size(list_blobs(store, None, None))
         IN  [status |-> "ok",
              output |-> "containers",
              lines |->
                  (IF ~c.summarize
                   THEN <<DuLine(container_size, "az://" \o actual_account \o "/c/")>>
                   ELSE <<>>)
                  \o (IF c.summarize \/ c.total
                      THEN <<DuLine(container_size, "az://" \o actual_account \o "/")>>
                      ELSE <<>>)]

\* calculate_azure_usage
calculate_azure_usage(c) ==
    LET r == parse_azure_uri(c.path)
        actual_account == client_account(r.account, c.account)
        blobs == list_blobs(store, r.path, None)
        total_path ==
            "az://" \o Unwrap(actual_account) \o "/" \o r.container
                \o (IF IsSome(r.path) THEN Unwrap(r.path) ELSE "")
        dir_sizes == calculate_directory_sizes(blobs, r.path)
        sorted_dirs == SortedStrs(DOMAIN dir_sizes)
    IN  IF ~r.ok
        THEN DuErr(r.err)
        ELSE IF IsNone(actual_account)
        THEN DuErr("Storage account not configured")
        ELSE IF IsSome(r.account) /\ r.container = ""
        THEN calculate_all_containers_usage(c, Unwrap(actual_account))
        ELSE IF ~provider_ok
        THEN DuErr("Failed to fetch blob page")
        ELSE IF c.summarize
        THEN [status |-> "ok",
              output |-> "summary",
              blobs |-> blobs,
              base_prefix |-> r.path,
              lines |-> <<DuLine(calculate_total_size(blobs), total_path)>>]
        ELSE [status |-> "ok",
              output |-> "dirs",
              blobs |-> blobs,
              base_prefix |-> r.path,
              dir_sizes |-> dir_sizes,
              lines |->
                  [i \in 1..Len(sorted_dirs) |->
                      DuLine(dir_sizes[sorted_dirs[i]],
                             "az://" \o Unwrap(actual_account) \o "/" \o r.container
                                 \o "/" \o sorted_dirs[i])]
                  \o (IF c.total
                      THEN <<DuLine(calculate_total_size(blobs), total_path)>>
                      ELSE <<>>)]

-----------------------------------------------------------------------------
(* Disk usage: du on a container *)

DuAddresses ==
    {"az://acc/c", "az://acc/c/", "az://acc/c/photos/", "az://acc/c/photos",
     "az://acc/c/photos/2024/", "az://acc/c/photos/20", "az://acc/c/zoo/",
     "az://acc/c/nothing/", "az://acc", "az://My_C/photos/", "az://My_C", "gs://acc/c"}

DuCmds ==
    [path : DuAddresses, summarize : BOOLEAN, total : BOOLEAN, account : {None, Some("acc")}]

InitDu ==
    /\ pc = "du"
    /\ store \in Stores
    /\ provider_ok \in BOOLEAN
    /\ cmd \in DuCmds
    /\ IdleUri /\ IdleLs /\ IdleDu /\ IdleFn /\ IdlePage /\ IdleCmd

CalculateAzureUsage ==
    /\ pc = "du"
    /\ du_result' = calculate_azure_usage(cmd)
    /\ pc' = "measured"
    /\ UNCHANGED <<uriVars, storeVars, ls_result, fnVars, pageVars, cmdVars>>

NextDu == CalculateAzureUsage

SpecDu == InitDu /\ [][NextDu]_vars

-----------------------------------------------------------------------------
(* Directory sizes: calculate_directory_sizes and calculate_total_size on a list *)

\* the items a listing may hold: the blobs of KeyUniverse and two prefixes
ItemUniverse ==
    {KeyUniverse[i] : i \in 1..Len(KeyUniverse)} \cup {Prefix("photos/2024/"), Prefix("zoo/a/")}

ItemLists == UNION {[1..n -> ItemUniverse] : n \in 0..MaxItems}

InitDirSizes ==
    /\ pc = "dir_sizes"
    /\ arg \in [blobs : ItemLists, base_prefix : {None, Some("photos/"), Some("zoo/")}]
    /\ ret = NoResult
    /\ IdleUri /\ IdleStore /\ IdleLs /\ IdleDu /\ IdlePage /\ IdleCmd

CalculateDirectorySizes ==
    /\ pc = "dir_sizes"
    /\ ret' = [dir_sizes |-> calculate_directory_sizes(arg.blobs, arg.base_prefix),
               total_size |-> calculate_total_size(arg.blobs)]
    /\ pc' = "dir_sizes_done"
    /\ UNCHANGED <<uriVars, storeVars, ls_result, du_result, arg, pageVars, cmdVars>>

NextDirSizes == CalculateDirectorySizes

SpecDirSizes == InitDirSizes /\ [][NextDirSizes]_vars

-----------------------------------------------------------------------------
(* commands/mv.rs, commands/cp.rs, commands/rm.rs and the URL azcopy is given *)

\* Ok(()) of a command
OkUnit == [ok |-> TRUE]

\* char::is_whitespace, for the characters a typed line can hold
Whitespace == {" ", "\n", "\t", "\r"}

\* str::trim_start
RECURSIVE trim_start(_)
trim_start(s) ==
    IF Len(s) > 0 /\ Char(s, 1) \in Whitespace THEN trim_start(Skip(s, 1)) ELSE s

\* str::trim_end
RECURSIVE trim_end(_)
trim_end(s) ==
    IF Len(s) > 0 /\ Char(s, Len(s)) \in Whitespace THEN trim_end(Take(s, Len(s) - 1)) ELSE s

\* str::trim
trim(s) == trim_end(trim_start(s))

AsciiUpperLetters == "ABCDEFGHIJKLMNOPQRSTUVWXYZ"
AsciiLowerLetters == "abcdefghijklmnopqrstuvwxyz"

\* char::to_lowercase, for ASCII
char_to_lowercase(c) ==
    LET i == Find(AsciiUpperLetters, c)
    IN  IF i = 0 THEN c ELSE Char(AsciiLowerLetters, i)

\* str::to_lowercase, for ASCII
RECURSIVE to_lowercase(_)
to_lowercase(s) ==
    IF Len(s) = 0 THEN "" ELSE char_to_lowercase(Char(s, 1)) \o to_lowercase(Skip(s, 1))

is_azure_uri(path) == StartsWith(path, "az://")

\* Result<String>
OkUrl(url) == [ok |-> TRUE, url |-> url]

BlobEndpoint == ".blob.core.windows.net"

convert_az_uri_to_url(az_uri) ==
    IF ~StartsWith(az_uri, "az://")
    THEN Err("Invalid Azure URI format. Expected az://...")
    ELSE LET path == Skip(az_uri, 5)
             parts == SplitN(path, 3, "/")
         IN  IF Len(parts) <= 1
             THEN Err("Invalid Azure URI. Expected format: az://account/container/[path]")
             ELSE IF Len(parts) = 2
             THEN OkUrl("https://" \o parts[1] \o BlobEndpoint \o "/" \o parts[2])
             ELSE OkUrl("https://" \o parts[1] \o BlobEndpoint \o "/" \o parts[2]
                            \o "/" \o parts[3])

\* cp::execute, with the transfer itself answered by the outside
cp_execute(source, destination, w) ==
    IF is_azure_uri(source) /\ is_azure_uri(destination)
    THEN Err("Azure to Azure copy is not yet implemented")
    ELSE IF is_azure_uri(source) \/ is_azure_uri(destination)
    THEN IF ~w.az_ok THEN Err("Azure CLI is not installed or not logged in")
         ELSE IF w.copy_ok THEN OkUnit ELSE Err("copy failed")
    ELSE IF w.copy_ok THEN OkUnit ELSE Err("copy failed")

\* A bug mv could have: the source is removed whatever the copy returned.
after_copy_unchecked(copied) == "rm"

\* mv: `cp::execute(..).await?` goes on to rm::execute only when the copy returned Ok
after_copy(copied) == IF copied.ok THEN "rm" ELSE "mv_done"

\* A bug rm could have: every answer that is not empty confirms.
confirmed_unless_empty(input) == input # ""

\* rm: the answers that do not abort
confirmed(input) == input = "y" \/ input = "yes"

\* the path rm::execute is called with, by the command line or by mv
RmPath == IF local.caller = "mv" THEN cmd.source ELSE cmd.path

\* remove_azure_object up to the prompt: the error it returns, or how it goes on
remove_azure_object_checks(path, force) ==
    LET p == parse_azure_uri(path)
    IN  IF ~p.ok THEN [next |-> "rm_done", result |-> p]
        ELSE IF p.container = ""
        THEN [next |-> "rm_done",
              result |-> Err("Invalid URI. You must specify both storage account and container")]
        ELSE IF IsNone(p.path)
        THEN [next |-> "rm_done", result |-> Err("Cannot remove entire container with rm")]
        ELSE IF ~force THEN [next |-> "rm_prompt", result |-> NoResult]
        ELSE [next |-> "rm_remove", result |-> NoResult]

\* remove_local_path up to the prompt of remove_local_file or remove_local_directory
remove_local_path_checks(kind, recursive, force) ==
    IF kind = "missing"
    THEN [next |-> "rm_done", result |-> Err("Path does not exist")]
    ELSE IF kind = "file"
    THEN [next |-> IF force THEN "rm_remove" ELSE "rm_prompt", result |-> NoResult]
    ELSE IF kind = "dir"
    THEN IF ~recursive
         THEN [next |-> "rm_done", result |-> Err("Cannot remove directory without -r flag")]
         ELSE [next |-> IF force THEN "rm_remove" ELSE "rm_prompt", result |-> NoResult]
    ELSE [next |-> "rm_done", result |-> Err("Path is neither file nor directory")]

-----------------------------------------------------------------------------
(* Moving and removing: mv and rm on a source, with the outside's answers *)

MvSources == {"az://acc/c/x", "az://acc/c", "az://My_C/x", "az://acc/c/*", "/tmp/f", "f"}
MvDestinations == {"az://acc/c/y", "/tmp/g"}
RmPaths == MvSources \cup {"az://acc", "az://acc/c/", "az://", "az://acc//x", "gs://b/x"}

\* the lines a user can type at the prompt ("" is the end of the input)
Answers == {"y\n", "yes\n", "Y\n", " Yes \r\n", "n\n", "\n", "", "no\n", "yy\n", "y es\n"}

Worlds ==
    [az_ok : BOOLEAN, azcopy_ok : BOOLEAN, copy_ok : BOOLEAN, remove_ok : BOOLEAN,
     answer : Answers, kind : {"missing", "file", "dir", "other"}]

NotCalled(caller) == [caller |-> caller, copied |-> NoResult, target_url |-> None]

InitMv ==
    /\ pc = "mv"
    /\ uri = "" /\ triple = NoTriple /\ parsed = NotParsed
    /\ store = <<>> /\ provider_ok = TRUE
    /\ cmd \in [source : MvSources, destination : MvDestinations,
                recursive : BOOLEAN, force : BOOLEAN]
    /\ world \in Worlds
    /\ trace = <<>>
    /\ local = NotCalled("mv")
    /\ IdleLs /\ IdleDu /\ IdleFn /\ IdlePage

InitRm ==
    /\ pc = "rm"
    /\ uri = "" /\ triple = NoTriple /\ parsed = NotParsed
    /\ store = <<>> /\ provider_ok = TRUE
    /\ cmd \in [path : RmPaths, recursive : BOOLEAN, force : BOOLEAN]
    /\ world \in {w \in Worlds : w.az_ok /\ w.copy_ok}    \* rm reads neither of the two
    /\ trace = <<>>
    /\ local = NotCalled("rm")
    /\ IdleLs /\ IdleDu /\ IdleFn /\ IdlePage

CmdFrame == UNCHANGED <<uriVars, storeVars, ls_result, du_result, arg, pageVars, world>>

\* mv::execute up to its first step
MvExecute ==
    /\ pc = "mv"
    /\ IF ~is_azure_uri(cmd.source) /\ ~is_azure_uri(cmd.destination)
       THEN /\ ret' = Err("Move operation requires at least one Azure path")
            /\ pc' = "mv_done"
       ELSE /\ ret' = ret
            /\ pc' = "mv_copy"
    /\ UNCHANGED <<trace, local>>
    /\ CmdFrame

\* mv::execute, step 1: cp::execute and the `?` on its result
MvCopy ==
    /\ pc = "mv_copy"
    /\ LET copied == cp_execute(cmd.source, cmd.destination, world)
       IN  /\ trace' = Append(trace, "cp")
           /\ local' = [local EXCEPT !.copied = copied]
           /\ pc' = after_copy(copied)
           /\ ret' = IF copied.ok THEN ret ELSE copied
    /\ CmdFrame

\* rm::execute up to the prompt
RmExecute ==
    /\ pc = "rm"
    /\ LET checks ==
               IF is_azure_uri(RmPath)
               THEN IF ~world.azcopy_ok
                    THEN [next |-> "rm_done", result |-> Err("AzCopy not found")]
                    ELSE remove_azure_object_checks(RmPath, cmd.force)
               ELSE remove_local_path_checks(world.kind, cmd.recursive, cmd.force)
       IN  /\ pc' = checks.next
           /\ ret' = IF checks.next = "rm_done" THEN checks.result ELSE ret
           /\ trace' = IF checks.next = "rm_prompt"
                       THEN trace \o <<"rm", "prompt">>
                       ELSE Append(trace, "rm")
    /\ UNCHANGED local
    /\ CmdFrame

\* the line read from the prompt
RmAnswer ==
    /\ pc = "rm_prompt"
    /\ LET input == to_lowercase(trim(world.answer))
       IN  IF confirmed(input)
           THEN /\ pc' = "rm_remove"
                /\ UNCHANGED <<ret, trace>>
           ELSE /\ pc' = "rm_done"
                /\ ret' = OkUnit
                /\ trace' = Append(trace, "aborted")
    /\ UNCHANGED local
    /\ CmdFrame

\* the removal itself: azcopy remove on the converted URL, or the file system
RmRemove ==
    /\ pc = "rm_remove"
    /\ pc' = "rm_done"
    /\ IF is_azure_uri(RmPath)
       THEN LET target_url == convert_az_uri_to_url(RmPath)
            IN  IF ~target_url.ok
                THEN /\ ret' = target_url
                     /\ UNCHANGED <<trace, local>>
                ELSE /\ trace' = Append(trace, "azcopy remove")
                     /\ local' = [local EXCEPT !.target_url = Some(target_url.url)]
                     /\ ret' = IF world.remove_ok THEN OkUnit
                               ELSE Err("AzCopy remove failed with exit code")
       ELSE /\ trace' = Append(trace, "remove " \o world.kind)
            /\ ret' = IF world.remove_ok THEN OkUnit ELSE Err("io error")
            /\ UNCHANGED local
    /\ CmdFrame

\* mv::execute, after step 2: the `?` on the result of rm::execute
MvReturn ==
    /\ pc = "rm_done"
    /\ local.caller = "mv"
    /\ pc' = "mv_done"
    /\ UNCHANGED <<ret, trace, local>>
    /\ CmdFrame

NextRm == RmExecute \/ RmAnswer \/ RmRemove

SpecRm == InitRm /\ [][NextRm]_vars

NextMv == MvExecute \/ MvCopy \/ RmExecute \/ RmAnswer \/ RmRemove \/ MvReturn

SpecMv == InitMv /\ [][NextMv]_vars

-----------------------------------------------------------------------------
(* azcopy_output.rs: handle_azcopy_output, and the azcopy process of azure.rs *)

\* Result<u32>
OkCount(n) == [ok |-> TRUE, count |-> n]

\* u32::MAX, in decimal
U32Max == "4294967295"

\* the digits of s without its leading zeros
RECURSIVE StripZeros(_)
StripZeros(s) == IF Len(s) > 1 /\ Char(s, 1) = "0" THEN StripZeros(Skip(s, 1)) ELSE s

\* a > b, for two strings of digits of the same length
RECURSIVE DigitsGreater(_, _)
DigitsGreater(a, b) ==
    IF Len(a) = 0 THEN FALSE
    ELSE LET x == Find("0123456789", Char(a, 1))
             y == Find("0123456789", Char(b, 1))
         IN  x > y \/ (x = y /\ DigitsGreater(Skip(a, 1), Skip(b, 1)))

\* the number a string of digits writes
RECURSIVE DecimalValue(_)
DecimalValue(s) ==
    IF Len(s) = 0 THEN 0
    ELSE DecimalValue(Take(s, Len(s) - 1)) * 10 + (Find("0123456789", Char(s, Len(s))) - 1)

\* str::parse::<u32>().ok(): digits behind an optional '+', no more than u32::MAX
parse_u32(s) ==
    LET digits == IF StartsWith(s, "+") THEN Skip(s, 1) ELSE s
        written == StripZeros(digits)
    IN  IF digits = "" \/ \E i \in 1..Len(digits) : Char(digits, i) \notin AsciiDigit
        THEN None
        ELSE IF Len(written) > Len(U32Max)
                  \/ (Len(written) = Len(U32Max) /\ DigitsGreater(written, U32Max))
        THEN None
        ELSE Some(DecimalValue(written))

\* Option::unwrap_or
unwrap_or(o, default) == IF IsSome(o) THEN Unwrap(o) ELSE default

\* what handle_azcopy_output keeps between two lines
OutputState(caller) ==
    [caller |-> caller, read |-> 0, failed_count |-> 0, pb |-> FALSE,
     log_file_location |-> FALSE, status |-> None]

\* the job of a progress message is over
job_completed(progress) ==
    progress.job_status = "Completed" \/ progress.job_status = "CompletedWithErrors"

\* a line that parsed as a progress message, with or without its wrapper
progress_seen(st, progress) ==
    IF job_completed(progress)
    THEN [st EXCEPT !.pb = FALSE,
                    !.failed_count = unwrap_or(parse_u32(progress.transfers_failed), 0)]
    ELSE [st EXCEPT !.pb = TRUE]

\* A bug handle_azcopy_output could have: the EndOfJob message sets the count too.
end_of_job_counted(st, progress) == progress_seen(st, progress)

\* an EndOfJob entry whose content parsed: the progress bar is cleared
end_of_job_seen(st, progress) == [st EXCEPT !.pb = FALSE]

\* one turn of the loop of handle_azcopy_output
handle_line(st, line) ==
    IF IsSome(line.message_type)
    THEN LET message_type == Unwrap(line.message_type)
         IN  IF message_type = "Progress"
             THEN IF line.content.kind = "progress"
                  THEN progress_seen(st, line.content.progress)
                  ELSE st
             ELSE IF message_type = "Init"
             THEN IF line.content.kind = "init"
                  THEN [st EXCEPT !.log_file_location = TRUE]
                  ELSE st
             ELSE IF message_type = "EndOfJob"
             THEN IF line.content.kind = "progress"
                  THEN end_of_job_seen(st, line.content.progress)
                  ELSE st
             ELSE st
    ELSE IF line.content.kind = "progress"
    THEN progress_seen(st, line.content.progress)
    ELSE st

\* A bug the two operations could have: every unsuccessful exit is an error.
exit_result_strict(success, failed_count) ==
    IF ~success THEN Err("AzCopy operation failed with exit code") ELSE OkUnit

\* copy_with_options and remove_with_options, once the process has exited
exit_result(success, failed_count) ==
    IF ~success
    THEN IF failed_count > 0 THEN OkUnit
         ELSE Err("AzCopy operation failed with exit code")
    ELSE OkUnit

-----------------------------------------------------------------------------
(* Output: handle_azcopy_output on a stream; azcopy: one copy or remove operation *)

Progress(job_status, transfers_failed) ==
    [kind |-> "progress",
     progress |-> [job_status |-> job_status, transfers_failed |-> transfers_failed]]

Text == [kind |-> "text"]

\* a line that parses as an AzCopyLogEntry
Entry(message_type, content) == [message_type |-> Some(message_type), content |-> content]

\* a line that does not: a bare ProgressMessage, or anything else
Bare(content) == [message_type |-> None, content |-> content]

FailedValues == {"0", "2", "x"}
OddFailedValues == {"", "-1", "+3", "007", "4294967296"}

Lines ==
    {Entry("Progress", Progress(s, f)) :
         s \in {"InProgress", "Completed", "CompletedWithErrors", "Failed"}, f \in FailedValues}
    \cup {Entry("Progress", Progress("Completed", f)) : f \in OddFailedValues}
    \cup {Bare(Progress(s, "2")) : s \in {"InProgress", "Completed", "CompletedWithErrors"}}
    \cup {Bare(Progress("Completed", "x")), Bare(Text), Bare([kind |-> "init"])}
    \cup {Entry(t, Progress("CompletedWithErrors", "2")) : t \in {"EndOfJob", "Info", "Warning"}}
    \cup {Entry("Progress", Text), Entry("EndOfJob", Text), Entry("Info", Text),
          Entry("Error", Text), Entry("Init", [kind |-> "init"]), Entry("Init", Text)}

RECURSIVE Streams(_)
Streams(n) ==
    IF n = 0 THEN {<<>>}
    ELSE LET shorter == Streams(n - 1)
         IN  shorter \cup {Append(s, l) : s \in shorter, l \in Lines}

\* the outputs of the runs of a whole operation
AzcopyStreams ==
    {<<>>,
     <<Entry("Progress", Progress("Completed", "0"))>>,
     <<Entry("Progress", Progress("InProgress", "0")),
       Entry("Progress", Progress("CompletedWithErrors", "2"))>>,
     <<Entry("Progress", Progress("Failed", "2")),
       Entry("EndOfJob", Progress("Failed", "2"))>>,
     <<Entry("Error", Text)>>,
     <<Bare(Progress("CompletedWithErrors", "x"))>>}

\* read_error = k: the k-th read of the stream fails; 0: none does
InitOutput ==
    /\ pc = "azcopy_output"
    /\ world \in {w \in [operation : {"copy"}, executable_ok : {TRUE}, spawn_ok : {TRUE},
                         lines : Streams(MaxLines), read_error : 0..(MaxLines + 1),
                         counted : {None}, wait_ok : {TRUE}, exit_ok : {TRUE}] :
                     w.read_error <= Len(w.lines) + 1}
    /\ trace = <<>>
    /\ local = OutputState("output")
    /\ IdleUri /\ IdleStore /\ IdleLs /\ IdleDu /\ IdleFn /\ IdlePage

InitAzcopy ==
    /\ pc = "azcopy"
    /\ world \in {w \in [operation : {"copy", "remove"}, executable_ok : BOOLEAN,
                         spawn_ok : BOOLEAN, lines : AzcopyStreams, read_error : 0..3,
                         counted : {None, Some(0), Some(2)},
                         wait_ok : BOOLEAN, exit_ok : BOOLEAN] :
                     /\ w.read_error <= Len(w.lines) + 1
                     /\ w.operation = "copy" => w.counted = None
                     /\ w.operation = "remove" => (w.lines = <<>> /\ w.read_error = 0)}
    /\ trace = <<>>
    /\ local = OutputState("azcopy")
    /\ IdleUri /\ IdleStore /\ IdleLs /\ IdleDu /\ IdleFn /\ IdlePage

AzcopyFrame ==
    UNCHANGED <<uriVars, storeVars, ls_result, du_result, arg, pageVars, world>>

\* get_azcopy_executable and spawn
AzcopySpawn ==
    /\ pc = "azcopy"
    /\ IF ~world.executable_ok
       THEN /\ ret' = Err("AzCopy executable not found")
            /\ pc' = "azcopy_done"
            /\ UNCHANGED trace
       ELSE IF ~world.spawn_ok
       THEN /\ ret' = Err("Failed to execute azcopy")
            /\ pc' = "azcopy_done"
            /\ UNCHANGED trace
       ELSE /\ ret' = ret
            /\ pc' = IF world.operation = "copy" THEN "azcopy_output" ELSE "azcopy_remove_output"
            /\ trace' = Append(trace, "azcopy " \o world.operation)
    /\ UNCHANGED local
    /\ AzcopyFrame

\* handle_azcopy_output: a line is read and handled
HandleLine ==
    /\ pc = "azcopy_output"
    /\ local.read < Len(world.lines)
    /\ world.read_error # local.read + 1
    /\ local' = [handle_line(local, world.lines[local.read + 1]) EXCEPT !.read = local.read + 1]
    /\ UNCHANGED <<pc, ret, trace>>
    /\ AzcopyFrame

\* handle_azcopy_output: `lines.next_line().await?` fails
ReadError ==
    /\ pc = "azcopy_output"
    /\ world.read_error = local.read + 1
    /\ ret' = Err("stream error")
    /\ pc' = IF local.caller = "output" THEN "output_done" ELSE "azcopy_done"
    /\ UNCHANGED <<trace, local>>
    /\ AzcopyFrame

\* handle_azcopy_output: the stream has ended, the count is returned
EndOfOutput ==
    /\ pc = "azcopy_output"
    /\ local.read = Len(world.lines)
    /\ world.read_error # local.read + 1
    /\ IF local.caller = "output"
       THEN /\ ret' = OkCount(local.failed_count)
            /\ pc' = "output_done"
       ELSE /\ ret' = ret
            /\ pc' = "azcopy_wait"
    /\ UNCHANGED <<trace, local>>
    /\ AzcopyFrame

\* remove_with_options: the count its own output handler returns, or its error
RemoveOutput ==
    /\ pc = "azcopy_remove_output"
    /\ IF IsNone(world.counted)
       THEN /\ ret' = Err("stream error")
            /\ pc' = "azcopy_done"
            /\ UNCHANGED local
       ELSE /\ ret' = ret
            /\ pc' = "azcopy_wait"
            /\ local' = [local EXCEPT !.failed_count = Unwrap(world.counted)]
    /\ UNCHANGED trace
    /\ AzcopyFrame

\* child.wait() and the exit status
AzcopyWait ==
    /\ pc = "azcopy_wait"
    /\ pc' = "azcopy_done"
    /\ IF ~world.wait_ok
       THEN /\ ret' = Err("Failed to wait for azcopy")
            /\ UNCHANGED local
       ELSE /\ ret' = exit_result(world.exit_ok, local.failed_count)
            /\ local' = [local EXCEPT !.status = Some(world.exit_ok)]
    /\ UNCHANGED trace
    /\ AzcopyFrame

NextOutput == HandleLine \/ ReadError \/ EndOfOutput

SpecOutput == InitOutput /\ [][NextOutput]_vars

NextAzcopy == AzcopySpawn \/ HandleLine \/ ReadError \/ EndOfOutput \/ RemoveOutput \/ AzcopyWait

SpecAzcopy == InitAzcopy /\ [][NextAzcopy]_vars

-----------------------------------------------------------------------------
(* azure.rs: AzureClient::get_credential *)

\* Ok(Arc<dyn TokenCredential>): a credential is known by the object it is
OkCredential(credential) == [ok |-> TRUE, credential |-> credential]

\* A bug get_credential could have: the cached credential is not looked at.
get_credential_uncached(self, creatable) ==
    IF ~creatable
    THEN [self |-> self, result |-> Err("Failed to create Azure credential")]
    ELSE [self |-> [self EXCEPT !.credential = Some(self.created + 1),
                                !.created = self.created + 1],
          result |-> OkCredential(self.created + 1)]

\* get_credential on a client; `creatable` is whether create_credential() would
\* succeed now, self.created counts the credentials created so far
get_credential(self, creatable) ==
    IF IsSome(self.credential)
    THEN [self |-> self, result |-> OkCredential(Unwrap(self.credential))]
    ELSE IF ~creatable
    THEN [self |-> self, result |-> Err("Failed to create Azure credential")]
    ELSE [self |-> [self EXCEPT !.credential = Some(self.created + 1),
                                !.created = self.created + 1],
          result |-> OkCredential(self.created + 1)]

-----------------------------------------------------------------------------
(* Credentials: consecutive get_credential calls on one client *)

\* AzureClient::new(), with no call made yet
NewClient == [caller |-> "credential", credential |-> None, created |-> 0, calls |-> <<>>]

\* world.creatable[k]: whether the environment lets create_credential() succeed
\* at the time of the k-th call
InitCredential ==
    /\ pc = "credential"
    /\ world \in [creatable : [1..MaxCalls -> BOOLEAN]]
    /\ trace = <<>>
    /\ local = NewClient
    /\ IdleUri /\ IdleStore /\ IdleLs /\ IdleDu /\ IdleFn /\ IdlePage

GetCredential ==
    /\ pc = "credential"
    /\ Len(local.calls) < MaxCalls
    /\ LET call == Len(local.calls) + 1
           got == get_credential(local, world.creatable[call])
       IN  /\ local' = [got.self EXCEPT
                            !.calls = Append(local.calls,
                                             [result |-> got.result,
                                              created |-> got.self.created])]
           /\ ret' = got.result
    /\ UNCHANGED <<pc, trace>>
    /\ UNCHANGED <<uriVars, storeVars, ls_result, du_result, arg, pageVars, world>>

NextCredential == GetCredential

SpecCredential == InitCredential /\ [][NextCredential]_vars

-----------------------------------------------------------------------------
(* The parts of an address, read off the text without splitting it *)

\* the text between az:// and the first '/' (or the end)
FirstSegment(u) ==
    LET r == Skip(u, 5)
    IN  IF Find(r, "/") = 0 THEN r ELSE Take(r, Find(r, "/") - 1)

\* the text after the first '/' that follows az://, empty when there is none
AfterFirstSlash(u) ==
    LET r == Skip(u, 5)
    IN  IF Find(r, "/") = 0 THEN "" ELSE Skip(r, Find(r, "/"))

\* the text between the first and the second '/' (or the end)
SecondSegment(u) ==
    LET r == AfterFirstSlash(u)
    IN  IF Find(r, "/") = 0 THEN r ELSE Take(r, Find(r, "/") - 1)

\* the text after the second '/', empty when there is none
ThirdPart(u) ==
    LET r == AfterFirstSlash(u)
    IN  IF Find(r, "/") = 0 THEN "" ELSE Skip(r, Find(r, "/"))

\* 3 to 24 characters, lowercase ASCII letters and digits only
LooksLikeAccount(s) ==
    /\ Len(s) \in 3..24
    /\ \A i \in 1..Len(s) : Char(s, i) \in AsciiLowercase \cup AsciiDigit

\* the text that follows the container, its leading '/' included
AfterContainer(u) ==
    LET r == Skip(u, 5)
        first == FirstSegment(u)
    IN  IF LooksLikeAccount(first)
        THEN Skip(r, Len(first) + 1 + Len(SecondSegment(u)))
        ELSE Skip(r, Len(first))

OptionOf(s) == IF s = "" THEN None ELSE Some(s)

Accepted == pc = "parsed" /\ StartsWith(uri, "az://") /\ FirstSegment(uri) # ""

\* C1: for an address that starts with az:// and has a non-empty first segment,
\* parse_azure_uri returns an account iff the first segment is 3 to 24 lowercase
\* letters and digits; the account is then the first segment, the container the
\* second segment and the path the unsplit third part.
C1_AccountIffFirstSegmentLooksLikeAccount ==
    Accepted =>
        /\ parsed.ok
        /\ IsSome(parsed.account) <=> LooksLikeAccount(FirstSegment(uri))
        /\ IsSome(parsed.account) =>
              /\ Unwrap(parsed.account) = FirstSegment(uri)
              /\ parsed.container = SecondSegment(uri)
              /\ parsed.path = OptionOf(ThirdPart(uri))

C1_Witness ==
    /\ Accepted
    /\ Len(FirstSegment(uri)) = 24
    /\ IsSome(parsed.account)
    /\ parsed.container # ""
    /\ IsSome(parsed.path)
    /\ Contains(Unwrap(parsed.path), "/")

\* C6: parse_azure_uri returns an error, and no components, exactly when the
\* address does not start with az:// or the text between az:// and the first '/'
\* is empty; every other address parses successfully.
C6_ErrorExactlyWhenNoSchemeOrEmptyFirstSegment ==
    pc = "parsed" =>
        /\ ~parsed.ok <=> (~StartsWith(uri, "az://") \/ FirstSegment(uri) = "")
        /\ ~parsed.ok => DOMAIN parsed = {"ok", "err"}
        /\ parsed.ok => DOMAIN parsed = {"ok", "account", "container", "path"}

C6_Witness == pc = "parsed" /\ uri = "az://" /\ ~parsed.ok

\* C7: for every accepted address the returned container is empty only if the
\* account is present and the path is absent.
C7_EmptyContainerOnlyAsSentinel ==
    (pc = "parsed" /\ parsed.ok /\ parsed.container = "") =>
        (IsSome(parsed.account) /\ IsNone(parsed.path))

\* C8 as stated: when the part of the address after the container is a single
\* trailing '/' or a doubled '/', the path is Some("/").
C8_TrailingOrDoubledSlashGivesSlashPath ==
    (Accepted /\ AfterContainer(uri) \in {"/", "//"}) => parsed.path = Some("/")

\* C8 amended: when the part of the address after the container is a doubled
\* '/', the path is Some("/"); when it is a single trailing '/', the path is None.
C8_DoubledSlashGivesSlashPath ==
    /\ (Accepted /\ AfterContainer(uri) = "//") => parsed.path = Some("/")
    /\ (Accepted /\ AfterContainer(uri) = "/") => parsed.path = None

C8_Witness ==
    /\ Accepted
    /\ uri = "az://account/container//"
    /\ parsed.path = Some("/")

\* C9: when the first segment fails the account-name test, parse_azure_uri
\* returns no account, the first segment as container, and as path the whole
\* remainder after the first '/' unchanged, absent only when it is empty.
C9_LegacyFirstSegmentIsContainer ==
    (Accepted /\ ~LooksLikeAccount(FirstSegment(uri))) =>
        /\ parsed.ok
        /\ parsed.account = None
        /\ parsed.container = FirstSegment(uri)
        /\ parsed.path = OptionOf(AfterFirstSlash(uri))

C9_Witness ==
    /\ pc = "parsed"
    /\ uri = "az://ab/container/x"
    /\ parsed = Ok(None, "ab", Some("container/x"))

\* a triple the address grammar can express: no '/' in the container, a path
\* that is not empty, and either an account-like account (with a container, or
\* as the sentinel with neither container nor path) or no account and a
\* container that does not look like an account
WellFormed(t) ==
    /\ ~Contains(t.container, "/")
    /\ IsSome(t.path) => Unwrap(t.path) # ""
    /\ \/ /\ IsSome(t.account)
          /\ LooksLikeAccount(Unwrap(t.account))
          /\ t.container # "" \/ IsNone(t.path)
       \/ /\ IsNone(t.account)
          /\ t.container # ""
          /\ ~LooksLikeAccount(t.container)

\* C10: formatting a well-formed triple as an az:// address and parsing it gives
\* back exactly the same triple.
C10_RoundTrip ==
    (pc = "parsed" /\ WellFormed(triple)) =>
        parsed = Ok(triple.account, triple.container, triple.path)

C10_Witness ==
    /\ pc = "parsed"
    /\ WellFormed(triple)
    /\ IsNone(triple.account)
    /\ Contains(triple.container, "_")
    /\ IsNone(triple.path)
    /\ uri = "az://" \o triple.container \o "/"
    /\ parsed.ok

-----------------------------------------------------------------------------
(* Listing and disk usage *)

\* the prefix list_azure_objects and calculate_azure_usage get from the address
CmdPrefix == parse_azure_uri(cmd.path).path

HasWildcard(s) == Contains(s, "*") \/ Contains(s, "?")

Listed == pc = "listed" /\ ls_result.listed

ItemSet(items) == {items[i] : i \in 1..Len(items)}

\* the directories directly under dir that hold at least one key of the store
Subdirectories(dir) ==
    {Take(Skip(store[i].name, Len(dir)), Find(Skip(store[i].name, Len(dir)), "/") - 1) :
        i \in {j \in 1..Len(store) :
                /\ StartsWith(store[j].name, dir)
                /\ Contains(Skip(store[j].name, Len(dir)), "/")}}

ScenarioKeys ==
    <<Blob("photos/2023/c.jpg", 50), Blob("photos/2024/a.jpg", 100), Blob("photos/2024/b.jpg", 200)>>

\* C2: a non-recursive ls whose pattern is '<prefix>*/' returns exactly one
\* Prefix entry per distinct immediate subdirectory of <prefix> that holds a key,
\* named '<prefix><dir>/', and no Blob entry; for the keys photos/2024/a.jpg,
\* photos/2024/b.jpg, photos/2023/c.jpg and photos/*/ these are photos/2024/ and
\* photos/2023/.
C2_DirectoryWildcardListsSubdirectories ==
    \A dir \in {"", "photos/"} :
        (Listed /\ ~cmd.recursive /\ provider_ok /\ cmd.path = "az://acc/c/" \o dir \o "*/") =>
            /\ ls_result.status = "ok"
            /\ ItemSet(ls_result.items) = {Prefix(dir \o d \o "/") : d \in Subdirectories(dir)}
            /\ Len(ls_result.items) = Cardinality(Subdirectories(dir))
            /\ (dir = "photos/" /\ store = ScenarioKeys) =>
                  ItemSet(ls_result.items) = {Prefix("photos/2024/"), Prefix("photos/2023/")}

\* C3: ls passes no delimiter to the listing provider iff the caller requested
\* recursion or forceRecursive is true; forceRecursive is true iff a glob pattern
\* is present and contains '**' or '/'; otherwise the delimiter '/' is passed;
\* without a glob pattern forceRecursive is false.
C3_DelimiterOmittedIffRecursive ==
    Listed =>
        LET has_pattern == IsSome(CmdPrefix) /\ HasWildcard(Unwrap(CmdPrefix))
            ps == ls_result.spec
        IN  /\ IsSome(ps.pattern) <=> has_pattern
            /\ ps.force_recursive <=>
                  /\ has_pattern
                  /\ Contains(Unwrap(ps.pattern), "**") \/ Contains(Unwrap(ps.pattern), "/")
            /\ IsNone(ls_result.delimiter) <=> (cmd.recursive \/ ps.force_recursive)
            /\ IsSome(ls_result.delimiter) => ls_result.delimiter = Some("/")
            /\ ~has_pattern => ~ps.force_recursive

C3_Witness ==
    /\ Listed
    /\ ~cmd.recursive
    /\ cmd.path = "az://acc/c/photos/*/*.jpg"
    /\ ls_result.spec.force_recursive
    /\ IsNone(ls_result.delimiter)

\* C4: when the glob pattern contains '**', ls enumerates flat whatever the
\* caller's recursive flag is, and its output is exactly the enumerated entries
\* whose name relative to the literal prefix matches the pattern; for the keys
\* photos/2024/a.jpg, photos/2024/b.jpg, photos/2023/c.jpg and photos/**/*.jpg
\* called non-recursively, all three blobs are listed.
C4_RecursiveWildcardFiltersFlatListing ==
    (Listed /\ ls_result.status = "ok" /\ IsSome(ls_result.spec.pattern)
        /\ Contains(Unwrap(ls_result.spec.pattern), "**")) =>
        LET literal == IF IsSome(ls_result.spec.list_prefix)
                       THEN Unwrap(ls_result.spec.list_prefix) ELSE ""
            pattern == Unwrap(ls_result.spec.pattern)
        IN  /\ IsNone(ls_result.delimiter)
            /\ ls_result.items =
                  SelectSeq(store, LAMBDA b :
                      /\ StartsWith(b.name, literal)
                      /\ matches_pattern(Skip(b.name, Len(literal)), pattern))
            /\ (cmd.path = "az://acc/c/photos/**/*.jpg" /\ ~cmd.recursive) =>
                  \A i \in 1..Len(ScenarioKeys) :
                      ScenarioKeys[i] \in ItemSet(store) => ScenarioKeys[i] \in ItemSet(ls_result.items)

C4_Witness ==
    /\ Listed
    /\ cmd.path = "az://acc/c/photos/**/*.jpg"
    /\ ~cmd.recursive
    /\ ls_result.status = "ok"
    /\ Len(store) > 3
    /\ ls_result.items = ScenarioKeys

\* the sum of content_length over the blobs of a stream whose name starts with d
RECURSIVE SizeUnder(_, _)
SizeUnder(blobs, d) ==
    IF blobs = <<>> THEN 0
    ELSE (IF Head(blobs).kind = "Blob" /\ StartsWith(Head(blobs).name, d)
          THEN Head(blobs).size ELSE 0) + SizeUnder(Tail(blobs), d)

\* C5: for every directory key d of the map returned by
\* calculate_directory_sizes, with or without a base prefix, the value under d
\* is the sum of content_length over every blob whose name starts with d.
C5_DirectorySizeIsSumOfBlobsUnderIt ==
    (pc = "measured" /\ du_result.status = "ok" /\ du_result.output = "dirs") =>
        \A d \in DOMAIN du_result.dir_sizes :
            du_result.dir_sizes[d] = SizeUnder(du_result.blobs, d)

-----------------------------------------------------------------------------
(* Pattern depth *)

\* how many times the character c occurs in s
Occurrences(s, c) == Cardinality({i \in 1..Len(s) : Char(s, i) = c})

\* how many maximal runs of characters other than '/' s has
SegmentStarts(s) ==
    Cardinality({i \in 1..Len(s) :
        Char(s, i) # "/" /\ (i = 1 \/ Char(s, i - 1) = "/")})

DepthApplied == pc = "depth_done"

\* C11 as stated: the depth of a pattern without '**' is the number of parts
\* splitting it on '/' gives, the empty parts included (one more than it has
\* '/'); a pattern with '**' has no depth.
C11_DepthCountsEveryPart ==
    DepthApplied =>
        ret.depth = IF Contains(arg.pattern, "**")
                    THEN None
                    ELSE Some(Occurrences(arg.pattern, "/") + 1)

\* C11, amended: the depth of a pattern without '**' is the number of
\* non-empty parts splitting it on '/' gives; a pattern with '**' has no depth.
C11_DepthCountsNonEmptyParts ==
    DepthApplied =>
        ret.depth = IF Contains(arg.pattern, "**")
                    THEN None
                    ELSE Some(SegmentStarts(arg.pattern))

C11_Witness ==
    /\ DepthApplied
    /\ arg.pattern = "a//*"
    /\ ret.depth = Some(2)

-----------------------------------------------------------------------------
(* Reconstruction *)

\* the names of the Prefix entries of a listing
PrefixNames(items) == {items[i].name : i \in {j \in 1..Len(items) : items[j].kind = "Prefix"}}

NthSlash(s, n) ==
    CHOOSE i \in 1..Len(s) : Char(s, i) = "/" /\ Occurrences(Take(s, i), "/") = n

\* s up to (and without) its n-th '/', the whole of s when it has only n - 1
UpToNthSlash(s, n) ==
    IF Occurrences(s, "/") >= n THEN Take(s, NthSlash(s, n) - 1) ELSE s

\* ls took the reconstruction path: a pattern with a depth that forces
\* recursion, under a caller that did not ask for recursion
Reconstructing ==
    /\ Listed
    /\ ls_result.status = "ok"
    /\ IsSome(ls_result.spec.pattern)
    /\ ~Contains(Unwrap(ls_result.spec.pattern), "**")
    /\ ls_result.spec.force_recursive
    /\ ~cmd.recursive

-----------------------------------------------------------------------------
(* Disk usage *)

\* C14: du on az://acc/c/photos/ over photos/2024/a.jpg (100),
\* photos/2024/b.jpg (200) and photos/2023/c.jpg (50) gives a map with
\* 'photos/2024/' = 300 and 'photos/2023/' = 50, and the grand total 350.
C14_PhotosScenarioSizes ==
    (/\ pc = "measured"
     /\ cmd.path = "az://acc/c/photos/"
     /\ store = ScenarioKeys
     /\ provider_ok
     /\ ~cmd.summarize
     /\ cmd.total) =>
        /\ du_result.status = "ok"
        /\ {"photos/2024/", "photos/2023/"} \subseteq DOMAIN du_result.dir_sizes
        /\ du_result.dir_sizes["photos/2024/"] = 300
        /\ du_result.dir_sizes["photos/2023/"] = 50
        /\ du_result.lines[Len(du_result.lines)].size = 350

\* name without the base prefix it starts with, name itself otherwise
RelativeTo(name, base_prefix) ==
    IF IsSome(base_prefix) /\ StartsWith(name, Unwrap(base_prefix))
    THEN Skip(name, Len(Unwrap(base_prefix)))
    ELSE name

\* the strict ancestor levels of a relative path: each beginning of it that
\* ends with a '/'
Ancestors(relative) == {Take(relative, i) : i \in {j \in 1..Len(relative) : Char(relative, j) = "/"}}

\* the sizes of the items of a list that are in counted, added up
RECURSIVE BlobSizes(_, _)
BlobSizes(items, counted) ==
    IF items = <<>> THEN 0
    ELSE (IF Head(items) \in counted THEN Head(items).size ELSE 0)
            + BlobSizes(Tail(items), counted)

\* C15: calculate_directory_sizes adds the size of each Blob to exactly its
\* strict ancestor levels, once each; a blob with one segment adds to no key;
\* a Prefix entry adds to no key and not to the total.
C15_BlobSizeGoesToItsStrictAncestors ==
    pc = "dir_sizes_done" =>
        LET AncestorsOf(item) == Ancestors(RelativeTo(item.name, arg.base_prefix))
            blobs == {arg.blobs[i] : i \in {j \in 1..Len(arg.blobs) : arg.blobs[j].kind = "Blob"}}
        IN  /\ DOMAIN ret.dir_sizes = UNION {AncestorsOf(b) : b \in blobs}
            /\ \A d \in DOMAIN ret.dir_sizes :
                 ret.dir_sizes[d] = BlobSizes(arg.blobs, {b \in blobs : d \in AncestorsOf(b)})
            /\ ret.total_size = BlobSizes(arg.blobs, blobs)

C15_Witness ==
    /\ pc = "dir_sizes_done"
    /\ arg.base_prefix = Some("zoo/")
    /\ arg.blobs = <<Prefix("zoo/a/"), Blob("zoo/a/b/c/file", 9)>>
    /\ DOMAIN ret.dir_sizes = {"a/", "a/b/", "a/b/c/"}
    /\ \A d \in DOMAIN ret.dir_sizes : ret.dir_sizes[d] = 9
    /\ ret.total_size = 9

-----------------------------------------------------------------------------
(* Paging *)

RECURSIVE Concat(_)
Concat(seqs) == IF seqs = <<>> THEN <<>> ELSE Head(seqs) \o Concat(Tail(seqs))

EntryNames(items) == [i \in 1..Len(items) |-> items[i].name]

\* the names of the entries of the pages before the k-th, in provider order
NamesBefore(k) == Concat([i \in 1..(k - 1) |-> EntryNames(pages[i].items)])

\* the names of the entries the callback has been handed, in call order
NamesReceived == Concat([i \in 1..Len(received) |-> EntryNames(received[i])])

Returned == pc \in {"returned", "displayed"}

\* C16: a page that fails is the last page ever requested; once its failure
\* is in, the listing has returned with that failure, no request is in
\* flight, and the callback has been called for the non-empty pages before it
\* and no more.
C16_PageFailureReturnsAtOnce ==
    \A k \in 1..requested :
        ~pages[k].ok =>
            /\ k = requested
            /\ pc # "await" =>
                 /\ Returned
                 /\ outstanding = 0
                 /\ page_result.status = "err"
                 /\ page_result.cause = pages[k].error
                 /\ Len(received) = Cardinality({i \in 1..(k - 1) : pages[i].items # <<>>})

C16_Witness ==
    /\ pc = "returned"
    /\ Len(pages) = 3
    /\ requested = 2
    /\ ~pages[2].ok
    /\ pages[3].ok
    /\ page_result.cause = 2
    /\ Len(received) = 1

\* C17: when a page fetch has failed, what the callback has received is the
\* entries of the pages before the failing one, in page order, and stays so.
C17_CallbackKeepsPagesBeforeFailure ==
    (Returned /\ requested >= 1 /\ ~pages[requested].ok) =>
        NamesReceived = NamesBefore(requested)

C17_Witness ==
    /\ pc = "returned"
    /\ consumer.api = "callback"
    /\ requested = 3
    /\ ~pages[3].ok
    /\ Len(received) = 2

\* C18: at most one page request is in flight; while the request for a page
\* is in flight the callback has been handed every entry of the pages
\* before it, in provider order, and holds no batch still to be handed.
C18_OnePageAtATimeInOrder ==
    /\ outstanding \in {0, 1}
    /\ pc = "await" =>
         /\ outstanding = 1
         /\ batch = <<>>
         /\ NamesReceived = NamesBefore(requested)

C18_Witness ==
    /\ pc = "await"
    /\ requested = 3
    /\ outstanding = 1
    /\ Len(received) = 2

\* C19: in an ls without a pattern, when the next page is requested the
\* entries of the pages before it have been written to the output, and what
\* the engine holds is never more than the entries of one page.
C19_LsWritesEachPageBeforeTheNext ==
    consumer.api = "ls" =>
        /\ pc = "await" => EntryNames(printed) = NamesBefore(requested)
        /\ \/ all_items \o batch = <<>>
           \/ \E k \in 1..Len(pages) :
                 pages[k].ok /\ EntryNames(all_items \o batch) = EntryNames(pages[k].items)

-----------------------------------------------------------------------------
(* Empty listings *)

\* the keys of the store that lie under the prefix ls lists with
KeysListed ==
    SelectSeq(store, LAMBDA b :
        StartsWith(b.name, IF IsSome(ls_result.spec.list_prefix)
                           THEN Unwrap(ls_result.spec.list_prefix)
                           ELSE ""))

\* C20: when the provider answers, list_azure_objects succeeds whether or not
\* anything is left after listing and filtering; with nothing left it reports
\* an empty listing.
C20_EmptyListingIsSuccess ==
    (Listed /\ provider_ok) =>
        /\ ls_result.status = "ok"
        /\ ls_result.items = <<>> => ls_result.output = "empty"
        /\ KeysListed = <<>> => ls_result.items = <<>>

\* nothing matched the pattern, although the prefix holds keys
C20_Witness ==
    /\ Listed
    /\ provider_ok
    /\ IsSome(ls_result.spec.pattern)
    /\ KeysListed # <<>>
    /\ ls_result.status = "ok"
    /\ ls_result.output = "empty"
    /\ ls_result.items = <<>>

-----------------------------------------------------------------------------
(* Matching *)

Matched(candidate, pattern) ==
    pc = "match_done" /\ arg.candidate = candidate /\ arg.pattern = pattern

\* C21: '*' matches within one segment and never a '/', '?' matches exactly
\* one character that is not '/': a pattern without '**' matches only
\* candidates with as many '/' as it has, a pattern without '*' only
\* candidates of its own length; a/*.txt matches a/b.txt and not a/b/c.txt,
\* a? matches ax and not abc.
C21_StarAndQuestionMarkStayInTheSegment ==
    pc = "match_done" =>
        /\ (ret.matched /\ ~Contains(arg.pattern, "**")) =>
              Occurrences(arg.candidate, "/") = Occurrences(arg.pattern, "/")
        /\ (ret.matched /\ ~Contains(arg.pattern, "*")) =>
              /\ Len(arg.candidate) = Len(arg.pattern)
              /\ \A i \in 1..Len(arg.pattern) :
                    Char(arg.pattern, i) = "?" => Char(arg.candidate, i) # "/"
        /\ (arg.pattern = "*" /\ ~Contains(arg.candidate, "/")) => ret.matched
        /\ (arg.pattern = "?" /\ Len(arg.candidate) = 1 /\ arg.candidate # "/") => ret.matched
        /\ Matched("a/b.txt", "a/*.txt") => ret.matched
        /\ Matched("a/b/c.txt", "a/*.txt") => ~ret.matched
        /\ Matched("a/.txt", "a/*.txt") => ret.matched
        /\ Matched("ax", "a?") => ret.matched
        /\ Matched("abc", "a?") => ~ret.matched

C21_Witness ==
    /\ Matched("a/b/c.txt", "a/*.txt")
    /\ ~ret.matched

\* C22: the token '**' matches across any number of segments, none
\* included: a/**/*.txt matches a/b/c.txt and a/c.txt.
C22_DoubleStarCrossesSegments ==
    pc = "match_done" =>
        /\ Matched("a/b/c.txt", "a/**/*.txt") => ret.matched
        /\ Matched("a/c.txt", "a/**/*.txt") => ret.matched
        /\ arg.pattern = "**" => ret.matched
        /\ (arg.pattern = "**/a" /\ (arg.candidate = "a" \/ EndsWith(arg.candidate, "/a"))) =>
              ret.matched

C22_Witness ==
    /\ Matched("a/c.txt", "a/**/*.txt")
    /\ ret.matched

-----------------------------------------------------------------------------
(* Pattern splitting *)

\* s up to its first '/', the whole of s when it has none
HeadSegment(s) == IF Find(s, "/") = 0 THEN s ELSE Take(s, Find(s, "/") - 1)

\* C23: the split is None exactly when the path has neither '*' nor '?';
\* otherwise the literal prefix is empty or ends with '/', holds no wildcard
\* and is followed by the glob pattern, whose first segment holds the first
\* wildcard; prefix and pattern together are the path.
C23_SplitAtLastSlashBeforeFirstWildcard ==
    pc = "split_done" =>
        /\ IsNone(ret.split) <=> ~HasWildcard(arg.path)
        /\ IsSome(ret.split) =>
              LET literal == Unwrap(ret.split)[1]
                  pattern == Unwrap(ret.split)[2]
              IN  /\ literal \o pattern = arg.path
                  /\ ~HasWildcard(literal)
                  /\ literal = "" \/ EndsWith(literal, "/")
                  /\ HasWildcard(HeadSegment(pattern))

C23_Witness ==
    /\ pc = "split_done"
    /\ arg.path = "a/a*"
    /\ ret.split = Some(<<"a/", "a*">>)

-----------------------------------------------------------------------------
(* Trailing slash *)

\* C24: an address of at most two segments parses to the same components
\* with and without one trailing '/': az://A/C and az://A/C/ to
\* (Some(A), C, None), az://A and az://A/ to (Some(A), "", None) when A
\* looks like an account; az://C and az://C/ to (None, C, None) otherwise.
C24_OneTrailingSlashChangesNothing ==
    (Accepted /\ ThirdPart(uri) = "") =>
        IF LooksLikeAccount(FirstSegment(uri))
        THEN parsed = Ok(Some(FirstSegment(uri)), SecondSegment(uri), None)
        ELSE AfterFirstSlash(uri) = "" => parsed = Ok(None, FirstSegment(uri), None)

C24_Witness ==
    /\ pc = "parsed"
    /\ uri = "az://aaa/x/"
    /\ parsed = Ok(Some("aaa"), "x", None)

-----------------------------------------------------------------------------
(* Moving and removing *)

\* the command has carried out op
Happened(op) == \E i \in 1..Len(trace) : trace[i] = op

\* C25: mv copies, then removes, in that order; the removal of the source is
\* started only when the copy has returned success, and a move between two
\* paths that are not az:// addresses fails with nothing copied or removed.
C25_MvCopiesThenRemovesOnSuccess ==
    local.caller = "mv" =>
        /\ Happened("rm") =>
               /\ Len(trace) >= 2 /\ trace[1] = "cp" /\ trace[2] = "rm"
               /\ local.copied = OkUnit
        /\ \A i \in 2..Len(trace) : trace[i] # "cp"
        /\ (pc = "mv_done" /\ ret.ok) => (Happened("cp") /\ Happened("rm"))
        /\ (~StartsWith(cmd.source, "az://") /\ ~StartsWith(cmd.destination, "az://")) =>
               /\ trace = <<>>
               /\ pc \in {"mv", "mv_done"}
               /\ pc = "mv_done" => ~ret.ok

C25_Witness ==
    /\ pc = "mv_done"
    /\ ret = OkUnit
    /\ trace = <<"cp", "rm", "prompt", "azcopy remove">>

\* the typed lines that are a "y" or a "yes"
YesAnswers == {"y\n", "yes\n", "Y\n", " Yes \r\n"}

-----------------------------------------------------------------------------
(* The azcopy process and its output *)

\* the operation has run to its end
AzcopyReturned == local.caller = "azcopy" /\ pc = "azcopy_done"

\* the process exited unsuccessfully and no failed transfer was counted
FailedExitWithoutFailedTransfers == local.status = Some(FALSE) /\ local.failed_count = 0

\* C27 as stated: copy_with_options and remove_with_options return an error
\* exactly when the process exits unsuccessfully with a failed-transfer count of 0.
C27_ErrorIffFailedExitWithoutFailedTransfers ==
    AzcopyReturned => (~ret.ok <=> FailedExitWithoutFailedTransfers)

\* C27, amended: once the process has been started, its output read and its
\* exit awaited, the operation returns an error exactly when the exit is
\* unsuccessful and the failed-transfer count is 0 (an unsuccessful exit with a
\* positive count is a success); it also returns an error when the executable
\* is not found, the process cannot be started, its output cannot be read or
\* its exit cannot be awaited.
C27_ErrorIffFailedExitWithoutFailedTransfersOnceAwaited ==
    AzcopyReturned =>
        /\ IsSome(local.status) <=>
               /\ world.executable_ok /\ world.spawn_ok /\ world.wait_ok
               /\ IF world.operation = "copy" THEN world.read_error = 0
                  ELSE IsSome(world.counted)
        /\ IsSome(local.status) => (~ret.ok <=> FailedExitWithoutFailedTransfers)
        /\ IsNone(local.status) => ~ret.ok

C27_Witness ==
    /\ AzcopyReturned
    /\ world.operation = "copy"
    /\ local.status = Some(FALSE)
    /\ local.failed_count = 2
    /\ ret = OkUnit

\* a progress message, wrapped or bare, of a job that is over
CompletedProgress(line) ==
    /\ line.message_type \in {None, Some("Progress")}
    /\ line.content.kind = "progress"
    /\ line.content.progress.job_status \in {"Completed", "CompletedWithErrors"}

\* the count a TransfersFailed value writes, 0 when it writes none
CountWritten(value) ==
    IF value = "2" THEN 2
    ELSE IF value = "+3" THEN 3
    ELSE IF value = "007" THEN 7
    ELSE 0

RECURSIVE LastCompletedCount(_)
LastCompletedCount(lines) ==
    IF Len(lines) = 0 THEN 0
    ELSE IF CompletedProgress(lines[Len(lines)])
    THEN CountWritten(lines[Len(lines)].content.progress.transfers_failed)
    ELSE LastCompletedCount(SubSeq(lines, 1, Len(lines) - 1))

\* C28: after any sequence of output lines the count of handle_azcopy_output
\* is the TransfersFailed value of the last progress message whose JobStatus
\* is Completed or CompletedWithErrors, 0 when there is none or the value is
\* not a count; no other line changes it, and it is the count returned.
C28_CountIsLastCompletedTransfersFailed ==
    local.caller = "output" =>
        /\ local.failed_count = LastCompletedCount(SubSeq(world.lines, 1, local.read))
        /\ (pc = "output_done" /\ ret.ok) => ret = OkCount(LastCompletedCount(world.lines))
        /\ (pc = "output_done" /\ world.read_error = 0) => ret.ok

C28_Witness ==
    /\ pc = "output_done"
    /\ ret = OkCount(2)
    /\ world.lines = <<Entry("Progress", Progress("CompletedWithErrors", "2")),
                       Entry("EndOfJob", Progress("CompletedWithErrors", "2"))>>

-----------------------------------------------------------------------------
(* Credentials *)

\* the calls that have a call after them
FollowedCalls == 1..(Len(local.calls) - 1)

-----------------------------------------------------------------------------
(* The URL handed to azcopy *)

\* the text of a URL behind "https://"
UrlAuthorityAndPath(url) == Skip(url, Len("https://"))

\* the account a blob URL names: its host without the blob endpoint
UrlAccount(url) ==
    LET rest == UrlAuthorityAndPath(url)
        host == Take(rest, Find(rest, "/") - 1)
    IN  Take(host, Len(host) - Len(BlobEndpoint))

\* the first segment of the path of a URL
UrlContainer(url) ==
    LET rest == UrlAuthorityAndPath(url)
        path == Skip(rest, Find(rest, "/"))
    IN  IF Find(path, "/") = 0 THEN path ELSE Take(path, Find(path, "/") - 1)

\* rm has converted its target, an address parse_azure_uri accepted before
Converted == local.caller = "rm" /\ IsSome(local.target_url)

\* C30: for an az:// address both functions accept, the host of the URL of
\* convert_az_uri_to_url is the account parse_azure_uri returns and the first
\* segment of its path is the container parse_azure_uri returns.
C30_UrlNamesTheParsedAccountAndContainer ==
    Converted =>
        /\ parse_azure_uri(cmd.path).account = Some(UrlAccount(Unwrap(local.target_url)))
        /\ parse_azure_uri(cmd.path).container = UrlContainer(Unwrap(local.target_url))

\* the two functions do agree on the addresses whose first segment reads as an account
UrlNamesTheParsedAccountAndContainerOfAccountAddresses ==
    (Converted /\ IsSome(parse_azure_uri(cmd.path).account)) =>
        /\ parse_azure_uri(cmd.path).account = Some(UrlAccount(Unwrap(local.target_url)))
        /\ parse_azure_uri(cmd.path).container = UrlContainer(Unwrap(local.target_url))


====
